---- MODULE Spec2Model ----
(***************************************************************************)
(* A model of the Google Ads analyzer's core: the table loader, the column *)
(* resolver, the file-type classifier, the analyzers and the tool          *)
(* dispatcher.  Text is a sequence of one-character strings, so that       *)
(* lower-casing, trimming, prefix and substring tests are computed.        *)
(***************************************************************************)
EXTENDS Integers, Sequences, FiniteSets, TLC

VARIABLES
    files,      \* path -> file on disk
    call,       \* the call being made: function name and arguments
    outcome     \* what the last call returned or raised

vars == <<files, call, outcome>>

----------------------------------------------------------------------------
(* Python str operations *)

UPPER == <<"A","B","C","D","E","F","G","H","I","J","K","L","M",
           "N","O","P","Q","R","S","T","U","V","W","X","Y","Z">>

LOWER == <<"a","b","c","d","e","f","g","h","i","j","k","l","m",
           "n","o","p","q","r","s","t","u","v","w","x","y","z">>

DIGITS == <<"0","1","2","3","4","5","6","7","8","9">>

lower_char(c) ==
    IF \E i \in 1..26 : UPPER[i] = c
    THEN LOWER[CHOOSE i \in 1..26 : UPPER[i] = c]
    ELSE c

\* the sequence f[1], ..., f[n], computed once
Tuple(f, n) == SubSeq(f, 1, n)

\* str.lower()
lower(s) == Tuple([i \in 1..Len(s) |-> lower_char(s[i])], Len(s))

is_space(c) == c \in {" ", "\t"}

SetMin(S) == CHOOSE m \in S : \A k \in S : m <= k

SetMax(S) == CHOOSE m \in S : \A k \in S : m >= k

\* str.strip()
strip(s) ==
    LET keep == {i \in 1..Len(s) : ~is_space(s[i])}
    IN  IF keep = {} THEN <<>> ELSE SubSeq(s, SetMin(keep), SetMax(keep))

\* str.startswith(prefix)
startswith(s, prefix) ==
    /\ Len(prefix) <= Len(s)
    /\ SubSeq(s, 1, Len(prefix)) = prefix

\* fragment in s
contains(s, fragment) ==
    \E i \in 1..(Len(s) - Len(fragment) + 1) :
        SubSeq(s, i, i + Len(fragment) - 1) = fragment

is_digit(c) == \E i \in 1..10 : DIGITS[i] = c

digit_value(c) == (CHOOSE i \in 1..10 : DIGITS[i] = c) - 1

RECURSIVE int_of(_)
\* int("123")
int_of(s) ==
    IF s = <<>> THEN 0
    ELSE 10 * int_of(SubSeq(s, 1, Len(s) - 1)) + digit_value(s[Len(s)])

RECURSIVE str_of_int(_)
\* str(123)
str_of_int(n) ==
    IF n < 10 THEN <<DIGITS[n + 1]>>
    ELSE str_of_int(n \div 10) \o <<DIGITS[(n % 10) + 1]>>

----------------------------------------------------------------------------
(* Values: what a call returns or raises, and the cells of a table *)

None == [kind |-> "none"]

Return(v) == [kind |-> "return", value |-> v]

Raise(e) == [kind |-> "raise", exc |-> e]

\* an optional value that is present
Some(v) == [kind |-> "some", value |-> v]

NaN == [t |-> "nan"]

Text(s) == [t |-> "text", s |-> s]

Num(n) == [t |-> "num", n |-> n]

\* str(cell), as Series.astype(str) renders it
str_of(cell) ==
    CASE cell.t = "nan"  -> <<"n","a","n">>
      [] cell.t = "num"  -> str_of_int(cell.n)
      [] cell.t = "text" -> cell.s

----------------------------------------------------------------------------
(* tools/utils.py: the cleaners.  A float x is the integer x * SCALE, so   *)
(* that a number with one decimal divides by 100 exactly.  Texts are      *)
(* over digits, punctuation, blanks and "x": float() is modelled for       *)
(* signed decimals, not for exponents, "inf", "nan" or digit separators.   *)

\* the number of model units in 1.0
SCALE == 10 * 100

\* a cell that already holds a float of u units
Float(u) == [t |-> "float", u |-> u]

RECURSIVE replace(_, _)
\* s.replace(old, '')
replace(s, old) ==
    IF Len(s) < Len(old) THEN s
    ELSE IF SubSeq(s, 1, Len(old)) = old
         THEN replace(SubSeq(s, Len(old) + 1, Len(s)), old)
         ELSE <<s[1]>> \o replace(SubSeq(s, 2, Len(s)), old)

\* float(s) for a str: blanks around are ignored, then an optional sign,
\* digits with at most one point and at least one digit
float_of(s) ==
    LET t      == strip(s)
        signed == t # <<>> /\ t[1] \in {"-", "+"}
        body   == IF signed THEN Tail(t) ELSE t
        points == {i \in 1..Len(body) : body[i] = "."}
        whole  == IF points = {} THEN body
                  ELSE SubSeq(body, 1, SetMin(points) - 1)
        frac   == IF points = {} THEN <<>>
                  ELSE SubSeq(body, SetMin(points) + 1, Len(body))
        units  == int_of(whole) * SCALE
                  + int_of(SubSeq(frac \o <<"0", "0", "0">>, 1, 3))
    IN  IF /\ Cardinality(points) <= 1
           /\ \A i \in 1..Len(body) : is_digit(body[i]) \/ body[i] = "."
           /\ \E i \in 1..Len(body) : is_digit(body[i])
        THEN Return(IF signed /\ t[1] = "-" THEN 0 - units ELSE units)
        ELSE Raise("ValueError")

\* float(val) of a number cell
float_of_number(val) == IF val.t = "num" THEN val.n * SCALE ELSE val.u

\* try: return float(val) / 100, with no except clause
percent_uncaught(s) ==
    LET r == float_of(s)
    IN  IF r.kind = "raise" THEN r ELSE Some(r.value \div 100)

\* try: return float(val) / 100  except (ValueError, TypeError): return None
percent(s) ==
    LET r == float_of(s)
    IN  IF r.kind = "raise" THEN None ELSE Some(r.value \div 100)

\* try: return float(val)  except (ValueError, TypeError): return None
to_float(s) ==
    LET r == float_of(s)
    IN  IF r.kind = "raise" THEN None ELSE Some(r.value)

\* clean_percentage dividing every number by 100
clean_percentage_always_divides(val) ==
    CASE val.t = "nan"  -> None
      [] val.t \in {"num", "float"} -> Some(float_of_number(val) \div 100)
      [] val.t = "text" ->
            percent(strip(replace(replace(replace(replace(
                val.s, <<"%">>), <<"<"," ">>), <<">">>), <<"-","-">>)))

\* clean_percentage(val)
clean_percentage(val) ==
    CASE val.t = "nan"  -> None
      [] val.t \in {"num", "float"} ->
            IF float_of_number(val) > SCALE
            THEN Some(float_of_number(val) \div 100)
            ELSE Some(float_of_number(val))
      [] val.t = "text" ->
            percent(strip(replace(replace(replace(replace(
                val.s, <<"%">>), <<"<"," ">>), <<">">>), <<"-","-">>)))

\* clean_currency(val)
clean_currency(val) ==
    CASE val.t = "nan"  -> None
      [] val.t \in {"num", "float"} -> Some(float_of_number(val))
      [] val.t = "text" ->
            to_float(strip(replace(replace(replace(val.s, <<"$">>), <<",">>), <<"-","-">>)))

\* clean_number(val)
clean_number(val) ==
    CASE val.t = "nan"  -> None
      [] val.t \in {"num", "float"} -> Some(float_of_number(val))
      [] val.t = "text" -> to_float(strip(replace(replace(val.s, <<",">>), <<"-","-">>)))

\* safe_divide(numerator, denominator): the quotient in model units, cut
\* at 1 / SCALE; 0.0 for a zero denominator
safe_divide(numerator, denominator) ==
    IF denominator = 0 THEN 0 ELSE (numerator * SCALE) \div denominator

----------------------------------------------------------------------------
(* tools/utils.py: load_csv.  A file is [status, utf8, lines]; a line is   *)
(* the sequence of its fields under the file's own delimiter (a blank line *)
(* is <<>>), none of which holds another candidate delimiter.  Headers are *)
(* pairwise distinct and no data line is longer than the header.           *)

\* a path with no file behind it
MissingFile == [status |-> "missing", utf8 |-> TRUE, lines |-> <<>>]

\* a path open() refuses: a directory, a file without read permission
UnreadableFile == [status |-> "unreadable", utf8 |-> TRUE, lines |-> <<>>]

\* the file a path names
file_at(fs, path) == IF path \in DOMAIN fs THEN fs[path] ELSE MissingFile

encodings == <<"utf-8-sig", "utf-8", "latin-1">>

\* open(path, 'r', encoding=enc) and f.read().splitlines()
open_read(f, enc) ==
    CASE f.status = "missing"    -> Raise("FileNotFoundError")
      [] f.status = "unreadable" -> Raise("PermissionError")
      [] f.status = "ok" /\ enc # "latin-1" /\ ~f.utf8
                                 -> Raise("UnicodeDecodeError")
      [] OTHER                   -> Return(f.lines)

RECURSIVE read_lines(_, _)
\* the loop over encodings: any exception moves on to the next encoding
read_lines(f, i) ==
    IF i > Len(encodings)
    THEN [found |-> FALSE, used_encoding |-> "utf-8-sig"]
    ELSE LET r == open_read(f, encodings[i])
         IN  IF r.kind = "raise"
             THEN read_lines(f, i + 1)
             ELSE [found |-> TRUE, lines |-> r.value,
                   used_encoding |-> encodings[i]]

\* a line with nothing on it: line.strip() is empty
is_blank_line(line) ==
    \/ Len(line) = 0
    \/ Len(line) = 1 /\ strip(line[1]) = <<>>

\* header detection that takes the first line
header_idx_first_line(lines) == 0

\* index (from 0) of the first non-blank line with at least 3 fields, else 0
header_idx(lines) ==
    LET wide == {i \in 1..Len(lines) :
                    ~is_blank_line(lines[i]) /\ Len(lines[i]) >= 3}
    IN  IF wide = {} THEN 0 ELSE SetMin(wide) - 1

\* the strings pandas reads as missing (those the exports use)
na_values == {<<>>, <<"N","A">>, <<"N","/","A">>, <<"n","/","a">>, <<"n","a","n">>, <<"N","a","N">>, <<"n","u","l","l">>}

is_numeric_text(s) == s # <<>> /\ \A i \in 1..Len(s) : is_digit(s[i])

\* field j of a data line, NaN-padded
field_at(line, j) == IF j <= Len(line) THEN line[j] ELSE <<>>

\* pandas infers one dtype per column: numbers only if every value is one
parse_cell(data, line, j) ==
    LET numeric == \A k \in 1..Len(data) :
                       \/ field_at(data[k], j) \in na_values
                       \/ is_numeric_text(field_at(data[k], j))
        s == field_at(line, j)
    IN  IF s \in na_values THEN NaN
        ELSE IF numeric THEN Num(int_of(s))
        ELSE Text(s)

\* a footer that is never cut
skipfooter_none(body, skipfooter) == body

\* skipfooter: the python engine cuts that many lines off the end, whatever
\* they hold
skipfooter_lines(body, skipfooter) == SubSeq(body, 1, Len(body) - skipfooter)

\* pd.read_csv(path, sep, skiprows=header_idx, skipfooter=2, engine='python',
\*             thousands=',', on_bad_lines='skip')
read_csv(lines, skiprows, skipfooter) ==
    LET rest == SubSeq(lines, skiprows + 1, Len(lines))
        full == {i \in 1..Len(rest) : ~is_blank_line(rest[i])}
    IN  IF full = {} THEN Raise("EmptyDataError")
        ELSE
        LET h      == SetMin(full)
            header == rest[h]
            ncols  == Len(header)
            body   == SubSeq(rest, h + 1, Len(rest))
            kept   == skipfooter_lines(body, skipfooter)
            data   == SelectSeq(kept, LAMBDA l :
                          ~is_blank_line(l) /\ Len(l) <= ncols)
        IN  Return([
              columns |-> Tuple([j \in 1..ncols |->
                             IF header[j] = <<>>
                             THEN <<"U","n","n","a","m","e","d",":"," ">> \o str_of_int(j - 1)
                             ELSE header[j]], ncols),
              rows    |-> Tuple([k \in 1..Len(data) |->
                             Tuple([j \in 1..ncols |->
                                    parse_cell(data, data[k], j)], ncols)],
                           Len(data))])

\* the table with its empty rows kept
dropna_none(df) == df

\* df.dropna(how='all')
dropna_all(df) ==
    [df EXCEPT !.rows = SelectSeq(df.rows, LAMBDA r :
                            \E j \in 1..Len(r) : r[j] # NaN)]

\* df[~df.iloc[:, 0].astype(str).str.lower().str.startswith('total')]
drop_total(df) ==
    [df EXCEPT !.rows = SelectSeq(df.rows, LAMBDA r :
                            ~startswith(lower(str_of(r[1])), <<"t","o","t","a","l">>))]

\* the exception open() raised is swallowed; a file no encoding opened
\* ends in ValueError("Could not read file")
load_csv(f) ==
    LET rd == read_lines(f, 1)
    IN  IF ~rd.found THEN Raise("ValueError")
        ELSE
        LET parsed == read_csv(rd.lines, header_idx(rd.lines), 2)
        IN  IF parsed.kind = "raise" THEN parsed
            ELSE
            LET df == [parsed.value EXCEPT
                         !.columns = Tuple([j \in 1..Len(parsed.value.columns) |->
                                        strip(parsed.value.columns[j])],
                                           Len(parsed.value.columns))]
            IN  Return(drop_total(dropna_all(df)))

----------------------------------------------------------------------------
(* tools/utils.py: find_col *)

RECURSIVE first_column(_, _, _)
\* find_col gone wrong: the first column that matches any candidate
first_column(columns, candidates, j) ==
    IF j > Len(columns) THEN None
    ELSE IF \E i \in 1..Len(candidates) :
                lower(columns[j]) = lower(candidates[i])
         THEN Some(columns[j])
         ELSE first_column(columns, candidates, j + 1)

RECURSIVE first_candidate(_, _, _)
first_candidate(columns, candidates, i) ==
    IF i > Len(candidates) THEN None
    ELSE LET hits == {j \in 1..Len(columns) :
                         lower(columns[j]) = lower(candidates[i])}
         IN  IF hits # {}
             \* lower_cols is a dict: the last column with that key wins
             THEN Some(columns[SetMax(hits)])
             ELSE first_candidate(columns, candidates, i + 1)

\* find_col(df, *candidates): the column's own name, or None
find_col(df, candidates) == first_candidate(df.columns, candidates, 1)

----------------------------------------------------------------------------
(* tools/utils.py: classify_csv *)

\* the list gone wrong: the generic fragment "ad" ahead of "ad group"
_FIRST_COL_MAP_generic_first == <<
    <<<<"a","d">>,                "ads">>,
    <<<<"s","e","a","r","c","h"," ","t","e","r","m">>,       "search_terms">>,
    <<<<"h","o","u","r"," ","o","f"," ","d","a","y">>,       "time_of_day">>,
    <<<<"d","a","y"," ","o","f"," ","w","e","e","k">>,       "day_of_week">>,
    <<<<"c","o","u","n","t","r","y","/","t","e","r","r","i","t","o","r","y">>, "geographic">>,
    <<<<"a","s","s","e","t"," ","t","y","p","e">>,        "extensions">>,
    <<<<"a","u","d","i","e","n","c","e"," ","s","e","g","m","e","n","t">>,  "audiences">>,
    <<<<"a","u","d","i","e","n","c","e">>,          "audiences">>,
    <<<<"d","e","v","i","c","e">>,            "devices">>,
    <<<<"a","d"," ","g","r","o","u","p">>,          "ad_groups">>,
    <<<<"k","e","y","w","o","r","d">>,           "keywords">>,
    <<<<"c","a","m","p","a","i","g","n">>,          "campaigns">>,
    <<<<"c","i","t","y">>,              "geographic">>,
    <<<<"r","e","g","i","o","n">>,            "geographic">>,
    <<<<"l","o","c","a","t","i","o","n">>,          "geographic">> >>

_FIRST_COL_MAP == <<
    <<<<"s","e","a","r","c","h"," ","t","e","r","m">>,       "search_terms">>,
    <<<<"h","o","u","r"," ","o","f"," ","d","a","y">>,       "time_of_day">>,
    <<<<"d","a","y"," ","o","f"," ","w","e","e","k">>,       "day_of_week">>,
    <<<<"c","o","u","n","t","r","y","/","t","e","r","r","i","t","o","r","y">>, "geographic">>,
    <<<<"a","s","s","e","t"," ","t","y","p","e">>,        "extensions">>,
    <<<<"a","u","d","i","e","n","c","e"," ","s","e","g","m","e","n","t">>,  "audiences">>,
    <<<<"a","u","d","i","e","n","c","e">>,          "audiences">>,
    <<<<"d","e","v","i","c","e">>,            "devices">>,
    <<<<"a","d"," ","g","r","o","u","p">>,          "ad_groups">>,
    <<<<"k","e","y","w","o","r","d">>,           "keywords">>,
    <<<<"c","a","m","p","a","i","g","n">>,          "campaigns">>,
    <<<<"c","i","t","y">>,              "geographic">>,
    <<<<"r","e","g","i","o","n">>,            "geographic">>,
    <<<<"l","o","c","a","t","i","o","n">>,          "geographic">>,
    <<<<"a","d">>,                "ads">> >>

\* the dict, in insertion order: <<type, <<fragment, weight>>...>>
_SIGNATURES == <<
    [type_key |-> "campaigns", sig |-> <<
        <<<<"b","u","d","g","e","t">>, 6>>,
        <<<<"s","e","a","r","c","h"," ","i","m","p","r","."," ","s","h","a","r","e">>, 8>>,
        <<<<"i","m","p","r","."," ","s","h","a","r","e">>, 5>>,
        <<<<"c","o","s","t"," ","/"," ","c","o","n","v",".">>, 3>> >>],
    [type_key |-> "keywords", sig |-> <<
        <<<<"q","u","a","l","i","t","y"," ","s","c","o","r","e">>, 10>>,
        <<<<"a","d"," ","r","e","l","e","v","a","n","c","e">>, 8>>,
        <<<<"l","a","n","d","i","n","g"," ","p","a","g","e"," ","e","x","p",".">>, 8>>,
        <<<<"e","x","p","."," ","c","t","r">>, 6>>,
        <<<<"m","a","t","c","h"," ","t","y","p","e">>, 3>> >>],
    [type_key |-> "search_terms", sig |-> <<
        <<<<"s","e","a","r","c","h"," ","t","e","r","m">>, 12>>,
        <<<<"a","d","d","e","d","/","e","x","c","l","u","d","e","d">>, 8>> >>],
    [type_key |-> "ads", sig |-> <<
        <<<<"h","e","a","d","l","i","n","e"," ","1">>, 10>>,
        <<<<"a","d"," ","s","t","r","e","n","g","t","h">>, 10>>,
        <<<<"d","e","s","c","r","i","p","t","i","o","n"," ","1">>, 8>>,
        <<<<"f","i","n","a","l"," ","u","r","l">>, 4>> >>],
    [type_key |-> "ad_groups", sig |-> <<
        <<<<"d","e","f","a","u","l","t"," ","m","a","x","."," ","c","p","c">>, 10>>,
        <<<<"a","d"," ","g","r","o","u","p">>, 5>> >>],
    [type_key |-> "devices", sig |-> <<
        <<<<"d","e","v","i","c","e">>, 10>> >>],
    [type_key |-> "audiences", sig |-> <<
        <<<<"a","u","d","i","e","n","c","e">>, 8>>,
        <<<<"b","i","d"," ","a","d","j",".">>, 5>> >>],
    [type_key |-> "extensions", sig |-> <<
        <<<<"a","s","s","e","t"," ","t","y","p","e">>, 10>>,
        <<<<"a","s","s","o","c","i","a","t","i","o","n"," ","l","e","v","e","l">>, 10>>,
        <<<<"e","x","t","e","n","s","i","o","n">>, 5>> >>],
    [type_key |-> "geographic", sig |-> <<
        <<<<"c","o","u","n","t","r","y","/","t","e","r","r","i","t","o","r","y">>, 12>>,
        <<<<"c","i","t","y">>, 8>>,
        <<<<"r","e","g","i","o","n">>, 6>> >>],
    [type_key |-> "time_of_day", sig |-> <<
        <<<<"h","o","u","r"," ","o","f"," ","d","a","y">>, 14>> >>],
    [type_key |-> "day_of_week", sig |-> <<
        <<<<"d","a","y"," ","o","f"," ","w","e","e","k">>, 14>>,
        <<<<"d","a","y">>, 5>> >>] >>

\* the score at which a signature match is accepted
MIN_SCORE == 5

\* Step 1 gone wrong: the first column is never matched
first_col_match_skipped(first_col, i) == None

RECURSIVE first_col_match(_, _)
\* Step 1: the first (fragment, type) the first column equals or starts with
first_col_match(first_col, i) ==
    IF i > Len(_FIRST_COL_MAP) THEN None
    ELSE LET fragment == _FIRST_COL_MAP[i][1]
         IN  IF \/ first_col = fragment
                \/ startswith(first_col, fragment \o <<" ">>)
             THEN Some(_FIRST_COL_MAP[i][2])
             ELSE first_col_match(first_col, i + 1)

RECURSIVE signature_score_equal(_, _, _)
\* scoring gone wrong: the fragment must be the whole header
signature_score_equal(sig, cols_lower, i) ==
    IF i > Len(sig) THEN 0
    ELSE (IF \E c \in 1..Len(cols_lower) : cols_lower[c] = sig[i][1]
          THEN sig[i][2] ELSE 0)
         + signature_score_equal(sig, cols_lower, i + 1)

RECURSIVE signature_score(_, _, _)
\* the inner loop: score += weight for each fragment found in any column
signature_score(sig, cols_lower, i) ==
    IF i > Len(sig) THEN 0
    ELSE (IF \E c \in 1..Len(cols_lower) : contains(cols_lower[c], sig[i][1])
          THEN sig[i][2] ELSE 0)
         + signature_score(sig, cols_lower, i + 1)

\* scores[type_key], in the order of _SIGNATURES
scores_of(cols_lower) ==
    Tuple([t \in 1..Len(_SIGNATURES) |->
             signature_score(_SIGNATURES[t].sig, cols_lower, 1)],
          Len(_SIGNATURES))

\* max gone wrong: the last key holding the largest score
best_type_last(scores) ==
    SetMax({t \in 1..Len(scores) : \A u \in 1..Len(scores) : scores[u] <= scores[t]})

\* max(scores, key=scores.get): the first key holding the largest score
best_type_of(scores) ==
    SetMin({t \in 1..Len(scores) : \A u \in 1..Len(scores) : scores[u] <= scores[t]})

\* classify_csv once the table is loaded
classify_table(df) ==
    IF Len(df.rows) = 0 \/ Len(df.columns) = 0 \/ Len(df.columns) < 2
    THEN Return(None)
    ELSE
    LET cols_lower == Tuple([j \in 1..Len(df.columns) |->
                                strip(lower(df.columns[j]))], Len(df.columns))
        first_col  == cols_lower[1]
        stage1     == first_col_match(first_col, 1)
        scores     == scores_of(cols_lower)
        best_type  == best_type_of(scores)
    IN  IF stage1 # None THEN Return(stage1)
        ELSE IF scores[best_type] >= MIN_SCORE
             THEN Return(Some(_SIGNATURES[best_type].type_key))
             ELSE Return(None)

\* classify_csv without its try/except: the loader's exception escapes
classify_csv_unguarded(f) ==
    LET loaded == load_csv(f)
    IN  IF loaded.kind = "raise" THEN loaded
        ELSE classify_table(loaded.value)

\* classify_csv(path): a load that raises is answered with None
classify_csv(f) ==
    LET loaded == load_csv(f)
    IN  IF loaded.kind = "raise" THEN Return(None)
        ELSE classify_table(loaded.value)

----------------------------------------------------------------------------
(* tools/*.py: the analyzers.  Each is modelled as far as the file, its    *)
(* headers and the columns present decide: the load, the column lookups,   *)
(* the error result for a missing identifying column, the aggregations     *)
(* that name derived columns, and the result returned.  An analyzer is     *)
(* given load, where load[p] is what load_csv(<parameter p>) returns or    *)
(* raises when the analyzer calls it.                                      *)

has(col) == col # None

\* the lookups every analyzer repeats
cost_col_of(df) == find_col(df, <<<<"C","o","s","t">>, <<"S","p","e","n","d">>>>)

conv_col_of(df) == find_col(df, <<<<"C","o","n","v","e","r","s","i","o","n","s">>, <<"C","o","n","v",".">>>>)

impr_col_of(df) == find_col(df, <<<<"I","m","p","r","e","s","s","i","o","n","s">>, <<"I","m","p","r",".">>>>)

clicks_col_of(df) == find_col(df, <<<<"C","l","i","c","k","s">>>>)

\* the result dict of an analysis that ran to its end
Analysed(summary) == [summary |-> summary]

\* {"error": message}
ErrorResult(message) == [error |-> message]

(* tools/keyword_analysis.py.  A derived column is a sequence with one    *)
(* entry per row, None where the cleaner gave None.                       *)

\* the position of a column found by find_col
column_at(df, col) ==
    CHOOSE j \in 1..Len(df.columns) : df.columns[j] = col.value

\* row.get(col, '') if col else ''
cell_or_blank(df, col, k) ==
    IF has(col) THEN df.rows[k][column_at(df, col)] ELSE Text(<<>>)

\* df[col].apply(clean_currency)
apply_clean_currency(df, col) ==
    Tuple([k \in 1..Len(df.rows) |->
              clean_currency(df.rows[k][column_at(df, col)])], Len(df.rows))

\* df[col].apply(clean_number)
apply_clean_number(df, col) ==
    Tuple([k \in 1..Len(df.rows) |->
              clean_number(df.rows[k][column_at(df, col)])], Len(df.rows))

RECURSIVE series_sum(_, _)
\* Series.sum(): missing values are skipped
series_sum(series, k) ==
    IF k > Len(series) THEN 0
    ELSE (IF series[k] = None THEN 0 ELSE series[k].value)
         + series_sum(series, k + 1)

\* row.get(derived, 0) or 0, for a row of a derived column that may be absent
value_or_zero(present, series, k) ==
    IF present /\ series[k] # None THEN series[k].value ELSE 0

\* the rows 1..n that satisfy keep, in table order
rows_where(n, keep(_)) ==
    SelectSeq(Tuple([k \in 1..n |-> k], n), keep)

\* one finding per selected row
findings_for(ks, finding(_)) ==
    Tuple([i \in 1..Len(ks) |-> finding(ks[i])], Len(ks))

\* the ad relevance check reading the quality score as well
below_average_or_low_qs(df, col, k) ==
    \/ contains(lower(str_of(df.rows[k][column_at(df, col)])), <<"b","e","l","o","w">>)
    \/ LET qs_col == find_col(df, <<<<"Q","u","a","l","i","t","y"," ","S","c","o","r","e">>, <<"Q","u","a","l","."," ","s","c","o","r","e">>>>)
       IN  /\ has(qs_col)
           /\ clean_number(df.rows[k][column_at(df, qs_col)]) # None
           /\ clean_number(df.rows[k][column_at(df, qs_col)]).value <= 3 * SCALE

\* df[col].astype(str).str.lower().str.contains('below', na=False), row k
below_average(df, col, k) ==
    contains(lower(str_of(df.rows[k][column_at(df, col)])), <<"b","e","l","o","w">>)

\* code points of the characters the reports use, in increasing order
CODE_POINTS == <<" ", "$", "%", ",", "-", ".", "/">> \o DIGITS \o <<":">>
               \o UPPER \o <<"_">> \o LOWER

ord(c) == CHOOSE i \in 1..Len(CODE_POINTS) : CODE_POINTS[i] = c

RECURSIVE str_less(_, _)
\* a < b for str
str_less(a, b) ==
    IF b = <<>> THEN FALSE
    ELSE IF a = <<>> THEN TRUE
    ELSE IF a[1] = b[1] THEN str_less(Tail(a), Tail(b))
    ELSE ord(a[1]) < ord(b[1])

RECURSIVE sorted(_)
\* the members of a set of str in increasing order, as groupby lists its keys
sorted(S) ==
    IF S = {} THEN <<>>
    ELSE LET least == CHOOSE a \in S : \A b \in S \ {a} : str_less(a, b)
         IN  <<least>> \o sorted(S \ {least})

\* a threshold that ignores the account's average CPA
waste_threshold_flat(avg_cpa) == 50 * SCALE

\* max(avg_cpa * 2, 30) if avg_cpa > 0 else 50
waste_threshold(avg_cpa) ==
    IF avg_cpa > 0
    THEN (IF avg_cpa * 2 > 30 * SCALE THEN avg_cpa * 2 ELSE 30 * SCALE)
    ELSE 50 * SCALE

\* the names each column of a keywords report is looked up under
keyword_names ==
    [campaign |-> <<<<"C","a","m","p","a","i","g","n">>>>,
     adgroup  |-> <<<<"A","d"," ","g","r","o","u","p">>>>,
     match    |-> <<<<"M","a","t","c","h"," ","t","y","p","e">>>>,
     qs       |-> <<<<"Q","u","a","l","i","t","y"," ","S","c","o","r","e">>, <<"Q","u","a","l","."," ","s","c","o","r","e">>>>,
     ad_rel   |-> <<<<"A","d"," ","r","e","l","e","v","a","n","c","e">>>>,
     lp       |-> <<<<"L","a","n","d","i","n","g"," ","p","a","g","e"," ","e","x","p",".">>, <<"L","a","n","d","i","n","g"," ","p","a","g","e"," ","e","x","p","e","r","i","e","n","c","e">>>>,
     max_cpc  |-> <<<<"M","a","x"," ","C","P","C">>, <<"M","a","x","."," ","C","P","C">>>>,
     fp_cpc   |-> <<<<"F","i","r","s","t"," ","p","a","g","e"," ","C","P","C"," ","e","s","t",".">>, <<"F","i","r","s","t"," ","p","a","g","e"," ","C","P","C">>>>,
     status   |-> <<<<"S","t","a","t","u","s">>, <<"K","e","y","w","o","r","d"," ","s","t","a","t","u","s">>>>]

\* the find_col calls of keyword_analysis.analyze
keyword_columns(df) ==
    [c \in DOMAIN keyword_names |-> find_col(df, keyword_names[c])]
    @@ [cost |-> cost_col_of(df), conv |-> conv_col_of(df)]

\* the derived columns _cost, _conv, _qs, _max_cpc and _fp_cpc
keyword_derived(df, cols) ==
    [_cost    |-> IF has(cols.cost) THEN apply_clean_currency(df, cols.cost) ELSE <<>>,
     _conv    |-> IF has(cols.conv) THEN apply_clean_number(df, cols.conv) ELSE <<>>,
     _qs      |-> IF has(cols.qs) THEN apply_clean_number(df, cols.qs) ELSE <<>>,
     _max_cpc |-> IF has(cols.max_cpc)
                  THEN apply_clean_currency(df, cols.max_cpc) ELSE <<>>,
     _fp_cpc  |-> IF has(cols.fp_cpc)
                  THEN apply_clean_currency(df, cols.fp_cpc) ELSE <<>>]

\* total_cost, total_conv and avg_cpa
keyword_totals(cols, d) ==
    LET total_cost == IF has(cols.cost) THEN series_sum(d._cost, 1) ELSE 0
        total_conv == IF has(cols.conv) THEN series_sum(d._conv, 1) ELSE 0
    IN  [total_cost |-> total_cost, total_conv |-> total_conv,
         avg_cpa |-> safe_divide(total_cost, total_conv)]

\* df['_kw_norm'] = df[name_col].str.lower().str.strip()
keyword_norms(df, name_col) ==
    Tuple([k \in 1..Len(df.rows) |->
              strip(lower(str_of(df.rows[k][column_at(df, name_col)])))],
          Len(df.rows))

\* the ad groups a normalised keyword appears in
keyword_ad_groups(df, cols, norms, kw) ==
    {df.rows[k][column_at(df, cols.adgroup)] :
        k \in {r \in 1..Len(df.rows) : norms[r] = kw}} \ {NaN}

\* the keywords in more than one ad group, with the number of ad groups
keyword_dupes(df, cols, norms) ==
    IF ~(has(cols.campaign) /\ has(cols.adgroup)) THEN <<>>
    ELSE LET kws == sorted({norms[k] : k \in 1..Len(norms)})
             counts == Tuple([i \in 1..Len(kws) |->
                                [kw |-> kws[i],
                                 count |-> Cardinality(
                                     keyword_ad_groups(df, cols, norms, kws[i]))]],
                             Len(kws))
         IN  SelectSeq(counts, LAMBDA c : c.count > 1)

\* the active rows that have a match type
keyword_counted(df, cols) ==
    LET status(k) == lower(str_of(df.rows[k][column_at(df, cols.status)]))
    IN  rows_where(Len(df.rows), LAMBDA k :
            /\ \/ ~has(cols.status)
               \/ ~(contains(status(k), <<"r","e","m","o","v","e","d">>) \/ contains(status(k), <<"p","a","u","s","e","d">>))
            /\ df.rows[k][column_at(df, cols.match)] # NaN)

\* the counted rows whose match type contains kind
keyword_matching(df, cols, counted, kind) ==
    Len(SelectSeq(counted, LAMBDA k :
            contains(lower(str_of(df.rows[k][column_at(df, cols.match)])), kind)))

\* the Match Type Balance findings
keyword_match_findings(cols, total_kws, broad_count, exact_count) ==
    LET all_keywords(detail) ==
            [severity |-> "MEDIUM", area |-> "Match Type Balance",
             keyword |-> Text(<<"A","l","l"," ","k","e","y","w","o","r","d","s">>), detail |-> detail]
    IN  IF ~has(cols.match) THEN <<>>
        ELSE (IF total_kws > 0 /\ 5 * broad_count > 3 * total_kws
              THEN <<all_keywords(<<broad_count, total_kws>>)>> ELSE <<>>)
             \o (IF exact_count = 0 THEN <<all_keywords(<<>>)>> ELSE <<>>)

\* the rows whose cell in a quality column reads below average and that cost
\* more than 10
keyword_below(df, cols, d, col) ==
    IF ~has(col) THEN <<>>
    ELSE rows_where(Len(df.rows), LAMBDA k :
            /\ below_average(df, col, k)
            /\ value_or_zero(has(cols.cost), d._cost, k) > 10 * SCALE)

\* the findings of the per-row checks and of the account checks, in the
\* order the analyzer appends them
keyword_findings(df, name_col, cols, d, avg_cpa, ad_rel, lp, matches, dupes) ==
    LET n          == Len(df.rows)
        cost(k)    == value_or_zero(has(cols.cost), d._cost, k)
        keyword(k) == df.rows[k][column_at(df, name_col)]
        row_finding(severity, area, k, detail) ==
            [severity |-> severity, area |-> area, keyword |-> keyword(k),
             campaign |-> cell_or_blank(df, cols.campaign, k),
             ad_group |-> cell_or_blank(df, cols.adgroup, k),
             detail   |-> detail]
        \* Quality Score Analysis
        qs_findings ==
            IF ~has(cols.qs) THEN <<>>
            ELSE findings_for(
                    rows_where(n, LAMBDA k :
                        /\ d._qs[k] # None /\ d._qs[k].value <= 3 * SCALE
                        /\ cost(k) > 20 * SCALE),
                    LAMBDA k : row_finding("HIGH", "Quality Score", k,
                                           <<d._qs[k].value, cost(k)>>))
        \* Ad Relevance & Landing Page Issues
        ad_rel_findings ==
            findings_for(ad_rel,
                LAMBDA k : row_finding("MEDIUM", "Ad Relevance", k, <<>>))
        lp_findings ==
            findings_for(lp,
                LAMBDA k : row_finding("MEDIUM", "Landing Page Experience", k, <<>>))
        \* Expensive Non-Converting Keywords
        wasted_findings ==
            IF ~(has(cols.cost) /\ has(cols.conv)) THEN <<>>
            ELSE findings_for(
                    rows_where(n, LAMBDA k :
                        /\ d._cost[k] # None
                        /\ d._cost[k].value > waste_threshold(avg_cpa)
                        /\ (d._conv[k] = None \/ d._conv[k].value = 0)),
                    LAMBDA k : row_finding("HIGH", "Wasted Spend", k, <<cost(k)>>))
        \* Duplicate Keywords
        dupe_findings ==
            Tuple([i \in 1..Len(dupes) |->
                      [severity |-> "LOW", area |-> "Duplicate Keywords",
                       keyword |-> Text(dupes[i].kw),
                       detail |-> <<dupes[i].count>>]],
                  Len(dupes))
        \* Bid Gaps
        bid_findings ==
            IF ~(has(cols.max_cpc) /\ has(cols.fp_cpc)) THEN <<>>
            ELSE findings_for(
                    rows_where(n, LAMBDA k :
                        /\ d._fp_cpc[k] # None
                        /\ d._max_cpc[k] # None
                        /\ 2 * d._fp_cpc[k].value > 3 * d._max_cpc[k].value),
                    LAMBDA k :
                        [severity |-> "LOW", area |-> "Bid Gap",
                         keyword |-> keyword(k),
                         detail |-> <<d._max_cpc[k].value, d._fp_cpc[k].value>>])
    IN  qs_findings \o ad_rel_findings \o lp_findings \o matches
        \o wasted_findings \o dupe_findings \o bid_findings

\* quality_score_breakdown
keyword_qs_summary(cols, qs) ==
    IF ~has(cols.qs) THEN None
    ELSE Some([poor_1_3 |-> Len(SelectSeq(qs, LAMBDA q :
                                q # None /\ q.value <= 3 * SCALE)),
               average_4_6 |-> Len(SelectSeq(qs, LAMBDA q :
                                q # None /\ q.value > 3 * SCALE
                                /\ q.value <= 6 * SCALE)),
               good_7_10 |-> Len(SelectSeq(qs, LAMBDA q :
                                q # None /\ q.value > 6 * SCALE))])

\* the Match Type Distribution block
keyword_match_block(df, cols, counted) ==
    keyword_match_findings(cols, Len(counted),
                           keyword_matching(df, cols, counted, <<"b","r","o","a","d">>),
                           keyword_matching(df, cols, counted, <<"e","x","a","c","t">>))

\* the result of the analyzer
keyword_result(df, name_col, cols, d, totals) ==
    [summary  |-> "Analyzed keywords",
     findings |-> keyword_findings(df, name_col, cols, d, totals.avg_cpa,
                     keyword_below(df, cols, d, cols.ad_rel),
                     keyword_below(df, cols, d, cols.lp),
                     IF has(cols.match)
                     THEN keyword_match_block(df, cols, keyword_counted(df, cols))
                     ELSE <<>>,
                     keyword_dupes(df, cols, keyword_norms(df, name_col))),
     quality_score_breakdown |-> keyword_qs_summary(cols, d._qs),
     metrics  |-> [total_keywords |-> Len(df.rows),
                   total_cost |-> totals.total_cost,
                   total_conversions |-> totals.total_conv,
                   avg_cpa |-> totals.avg_cpa]]

\* the checks once the table and its derived columns are there
keyword_derived_checks(df, name_col, cols, d) ==
    keyword_result(df, name_col, cols, d, keyword_totals(cols, d))

\* the checks once the columns are found
keyword_column_checks(df, name_col, cols) ==
    keyword_derived_checks(df, name_col, cols, keyword_derived(df, cols))

\* keyword_analysis.analyze, from line 36 on
keyword_checks(df, name_col) ==
    keyword_column_checks(df, name_col, keyword_columns(df))

\* keyword_analysis.analyze(data_path)
keyword_analysis_analyze(load) ==
    LET loaded == load.data_path
    IN  IF loaded.kind = "raise" THEN loaded
        ELSE
        LET name_col == find_col(loaded.value, <<<<"K","e","y","w","o","r","d">>, <<"K","e","y","w","o","r","d"," ","t","e","x","t">>>>)
        IN  IF ~has(name_col)
            THEN Return(ErrorResult("Could not find Keyword column in keywords.csv"))
            ELSE Return(keyword_checks(loaded.value, name_col))

\* cleaner(val) for the cleaner of that name
clean(cleaner, val) ==
    CASE cleaner = "clean_currency"   -> clean_currency(val)
      [] cleaner = "clean_number"     -> clean_number(val)
      [] cleaner = "clean_percentage" -> clean_percentage(val)

\* if col: df[derived] = df[col].apply(cleaner): whether the column is
\* there, and the derived column
derive_column(df, col, cleaner) ==
    [present |-> has(col),
     series  |-> IF has(col)
                 THEN Tuple([k \in 1..Len(df.rows) |->
                                clean(cleaner, df.rows[k][column_at(df, col)])],
                            Len(df.rows))
                 ELSE <<>>]

\* the derived columns of an analyzer: plan gives, for each derived column,
\* the names its source is looked up under and its cleaner
derive(df, plan) ==
    [name \in DOMAIN plan |->
        derive_column(df, find_col(df, plan[name].candidates), plan[name].cleaner)]

\* row.get(derived, 0) or 0 as iterrows hands it over: a derived column
\* holding a number is a float column whose gaps are nan, a derived column
\* holding no number is an object column of None
row_get(present, series, k) ==
    IF ~present THEN Float(0)
    ELSE IF series[k] # None THEN Float(series[k].value)
    ELSE IF \A j \in 1..Len(series) : series[j] = None THEN Float(0)
    ELSE NaN

\* x > bound and x < bound for a float x: False for nan
gt(x, bound) == x # NaN /\ x.u > bound

lt(x, bound) == x # NaN /\ x.u < bound

\* row.get(derived, 0) or 0 for a derived column
row_value(column, k) == row_get(column.present, column.series, k)

\* df[derived].sum() if derived in df else 0
column_sum(column) == IF column.present THEN series_sum(column.series, 1) ELSE 0

\* safe_divide on row values: nan for a nan numerator
safe_divide_row(numerator, denominator) ==
    IF denominator = NaN \/ denominator = Float(0) THEN Float(0)
    ELSE IF numerator = NaN THEN NaN
    ELSE Float((numerator.u * SCALE) \div denominator.u)

\* Series.mean(): missing values are skipped, nan when nothing is left
series_mean(series) ==
    LET count == Cardinality({k \in 1..Len(series) : series[k] # None})
    IN  IF count = 0 THEN NaN ELSE Float(series_sum(series, 1) \div count)

RECURSIVE concat(_)
\* the findings of the rows, one row after the other
concat(lists) ==
    IF lists = <<>> THEN <<>> ELSE Head(lists) \o concat(Tail(lists))

\* the status as the report spells it
status_as_spelled(cell) == str_of(cell)

\* str(row.get(status_col, '')).lower()
status_of(cell) == lower(str_of(cell))

\* status == 'enabled' and impr == 0
campaign_idle(status, impr) == status = <<"e","n","a","b","l","e","d">> /\ impr = Float(0)

\* the derived columns of campaign_performance.analyze
campaign_plan == [
    _cost        |-> [candidates |-> <<<<"C","o","s","t">>, <<"S","p","e","n","d">>>>,
                      cleaner |-> "clean_currency"],
    _conv        |-> [candidates |-> <<<<"C","o","n","v","e","r","s","i","o","n","s">>, <<"C","o","n","v",".">>>>,
                      cleaner |-> "clean_number"],
    _conv_val    |-> [candidates |-> <<<<"C","o","n","v","e","r","s","i","o","n"," ","v","a","l","u","e">>, <<"C","o","n","v","."," ","v","a","l","u","e">>,
                                       <<"A","l","l"," ","c","o","n","v","."," ","v","a","l","u","e">>>>,
                      cleaner |-> "clean_currency"],
    _ctr         |-> [candidates |-> <<<<"C","T","R">>>>, cleaner |-> "clean_percentage"],
    _impr        |-> [candidates |-> <<<<"I","m","p","r","e","s","s","i","o","n","s">>, <<"I","m","p","r",".">>>>,
                      cleaner |-> "clean_number"],
    _budget      |-> [candidates |-> <<<<"B","u","d","g","e","t">>, <<"D","a","i","l","y"," ","b","u","d","g","e","t">>>>,
                      cleaner |-> "clean_currency"],
    _lost_budget |-> [candidates |-> <<<<"S","e","a","r","c","h"," ","l","o","s","t"," ","I","S"," ","(","b","u","d","g","e","t",")">>,
                                       <<"S","e","a","r","c","h"," ","L","o","s","t"," ","I","S"," ","(","b","u","d","g","e","t",")">>>>,
                      cleaner |-> "clean_percentage"],
    _lost_rank   |-> [candidates |-> <<<<"S","e","a","r","c","h"," ","l","o","s","t"," ","I","S"," ","(","r","a","n","k",")">>,
                                       <<"S","e","a","r","c","h"," ","L","o","s","t"," ","I","S"," ","(","r","a","n","k",")">>>>,
                      cleaner |-> "clean_percentage"],
    _cost_conv   |-> [candidates |-> <<<<"C","o","s","t"," ","/"," ","c","o","n","v",".">>, <<"C","o","s","t","/","c","o","n","v",".">>, <<"C","P","A">>>>,
                      cleaner |-> "clean_currency"]]

\* the checks of campaign_performance.analyze on row k, in the order the
\* code makes them; d holds the derived columns
campaign_row_checks(df, name_col, status_col, d, avg_cpa, k) ==
    LET name    == df.rows[k][column_at(df, name_col)]
        cost    == row_value(d._cost, k)
        conv    == row_value(d._conv, k)
        impr    == row_value(d._impr, k)
        budget  == row_value(d._budget, k)
        ctr     == row_value(d._ctr, k)
        cpa     == row_value(d._cost_conv, k)
        lost_b  == row_value(d._lost_budget, k)
        lost_r  == row_value(d._lost_rank, k)
        status  == IF has(status_col)
                   THEN status_of(df.rows[k][column_at(df, status_col)])
                   ELSE <<>>
        conv_val    == row_value(d._conv_val, k)
        roas        == safe_divide_row(conv_val, cost)
        daily_avg   == cost.u \div 30
        utilization == safe_divide(daily_avg, budget.u)
        finding(severity, area, detail) ==
            [severity |-> severity, area |-> area, campaign |-> name,
             detail |-> detail]
    IN  (IF gt(lost_b, SCALE \div 10)
         THEN <<finding("HIGH", "Budget", <<lost_b>>)>> ELSE <<>>)
        \o (IF gt(lost_r, SCALE \div 5)
            THEN <<finding("HIGH", "Impression Share (Rank)", <<lost_r>>)>>
            ELSE <<>>)
        \o (IF avg_cpa > 0 /\ gt(cpa, avg_cpa * 2) /\ gt(cost, 50 * SCALE)
            THEN <<finding("HIGH", "CPA", <<cpa, avg_cpa>>)>> ELSE <<>>)
        \o (IF /\ d._conv_val.present
               /\ gt(conv, 0)
               /\ lt(roas, SCALE)
               /\ gt(cost, 100 * SCALE)
            THEN <<finding("HIGH", "ROAS", <<roas, cost, conv_val>>)>>
            ELSE <<>>)
        \o (IF /\ ctr # Float(0)
               /\ lt(ctr, SCALE \div 200)
               /\ gt(impr, 1000 * SCALE)
            THEN <<finding("MEDIUM", "CTR", <<ctr, impr>>)>> ELSE <<>>)
        \o (IF campaign_idle(status, impr)
            THEN <<finding("MEDIUM", "Delivery", <<>>)>> ELSE <<>>)
        \o (IF /\ gt(budget, 0)
               /\ gt(cost, 0)
               /\ utilization < SCALE \div 5
               /\ gt(cost, 10 * SCALE)
            THEN <<finding("LOW", "Budget Utilization",
                           <<utilization, daily_avg, budget>>)>>
            ELSE <<>>)

\* the result of campaign_performance.analyze from its benchmarks and its
\* findings
campaign_result(n, d, total_cost, total_conv, avg_cpa, findings) ==
    [summary  |-> <<"Analyzed campaigns", n, total_cost, total_conv, avg_cpa,
                    Len(findings)>>,
     findings |-> findings,
     metrics  |-> [total_cost |-> total_cost,
                   total_conversions |-> total_conv,
                   account_avg_cpa |-> avg_cpa,
                   account_avg_ctr |-> IF d._ctr.present
                                       THEN series_mean(d._ctr.series)
                                       ELSE Float(0),
                   account_roas |-> safe_divide(column_sum(d._conv_val),
                                                total_cost)]]

\* campaign_performance.analyze from the benchmarks on
campaign_report(df, name_col, status_col, d, total_cost, total_conv, avg_cpa) ==
    campaign_result(
        Len(df.rows), d, total_cost, total_conv, avg_cpa,
        concat(Tuple([k \in 1..Len(df.rows) |->
                         campaign_row_checks(df, name_col, status_col, d,
                                             avg_cpa, k)],
                     Len(df.rows))))

\* the benchmarks of campaign_performance.analyze
campaign_benchmarks(df, name_col, status_col, d) ==
    campaign_report(df, name_col, status_col, d,
                    column_sum(d._cost), column_sum(d._conv),
                    safe_divide(column_sum(d._cost), column_sum(d._conv)))

\* campaign_performance.analyze, from line 32 on
campaign_checks(df, name_col) ==
    campaign_benchmarks(df, name_col,
                        find_col(df, <<<<"C","a","m","p","a","i","g","n"," ","s","t","a","t","u","s">>, <<"S","t","a","t","u","s">>>>),
                        derive(df, campaign_plan))

\* campaign_performance.analyze(data_path)
campaign_performance_analyze(load) ==
    LET loaded == load.data_path
    IN  IF loaded.kind = "raise" THEN loaded
        ELSE
        LET name_col == find_col(loaded.value, <<<<"C","a","m","p","a","i","g","n">>, <<"C","a","m","p","a","i","g","n"," ","n","a","m","e">>>>)
        IN  IF ~has(name_col)
            THEN Return(ErrorResult("Could not find Campaign column in campaigns.csv"))
            ELSE Return(campaign_checks(loaded.value, name_col))

\* ad_creative_analysis.analyze(data_path)
ad_creative_analysis_analyze(load) ==
    LET loaded == load.data_path
    IN  IF loaded.kind = "raise" THEN loaded
        ELSE IF ~has(find_col(loaded.value, <<<<"A","d"," ","g","r","o","u","p">>>>))
        THEN Return(ErrorResult("Could not find 'Ad group' column in ads.csv"))
        ELSE Return(Analysed("Analyzed ads"))

\* row.get('_conv_rate') is not None: the column is there and the row's
\* value is a float, nan included
is_not_none(present, series, k) ==
    present /\ \E j \in 1..Len(series) : series[j] # None

\* the derived columns of bidding_strategy.analyze
bidding_plan == [
    _cost      |-> [candidates |-> <<<<"C","o","s","t">>, <<"S","p","e","n","d">>>>,
                    cleaner |-> "clean_currency"],
    _conv      |-> [candidates |-> <<<<"C","o","n","v","e","r","s","i","o","n","s">>, <<"C","o","n","v",".">>>>,
                    cleaner |-> "clean_number"],
    _conv_val  |-> [candidates |-> <<<<"C","o","n","v","e","r","s","i","o","n"," ","v","a","l","u","e">>, <<"C","o","n","v","."," ","v","a","l","u","e">>>>,
                    cleaner |-> "clean_currency"],
    _lost_rank |-> [candidates |-> <<<<"S","e","a","r","c","h"," ","l","o","s","t"," ","I","S"," ","(","r","a","n","k",")">>,
                                     <<"S","e","a","r","c","h"," ","L","o","s","t"," ","I","S"," ","(","r","a","n","k",")">>>>,
                    cleaner |-> "clean_percentage"],
    _cpa       |-> [candidates |-> <<<<"C","o","s","t"," ","/"," ","c","o","n","v",".">>, <<"C","o","s","t","/","c","o","n","v",".">>>>,
                    cleaner |-> "clean_currency"],
    _impr      |-> [candidates |-> <<<<"I","m","p","r","e","s","s","i","o","n","s">>, <<"I","m","p","r",".">>>>,
                    cleaner |-> "clean_number"],
    _conv_rate |-> [candidates |-> <<<<"C","o","n","v","."," ","r","a","t","e">>, <<"C","o","n","v","e","r","s","i","o","n"," ","r","a","t","e">>>>,
                    cleaner |-> "clean_percentage"]]

\* conv < 30 and cost > 50
unready(d, k) ==
    lt(row_value(d._conv, k), 30 * SCALE) /\ gt(row_value(d._cost, k), 50 * SCALE)

\* the checks of bidding_strategy.analyze on row k, in the order the code
\* makes them; d holds the derived columns
bidding_row_checks(df, name_col, d, account_avg_cpa, k) ==
    LET name     == df.rows[k][column_at(df, name_col)]
        cost     == row_value(d._cost, k)
        conv     == row_value(d._conv, k)
        conv_val == row_value(d._conv_val, k)
        lost_r   == row_value(d._lost_rank, k)
        cpa      == row_value(d._cpa, k)
        impr     == row_value(d._impr, k)
        roas     == safe_divide_row(conv_val, cost)
        finding(severity, area, detail) ==
            [severity |-> severity, area |-> area, campaign |-> name,
             detail |-> detail]
    IN  (IF unready(d, k)
         THEN <<finding("MEDIUM", "Smart Bidding Readiness", <<conv>>)>>
         ELSE <<>>)
        \o (IF gt(lost_r, SCALE \div 4) /\ gt(conv, 0)
            THEN <<finding("HIGH", "Bidding - Under-Investing",
                           <<lost_r, conv, cpa>>)>>
            ELSE <<>>)
        \o (IF /\ gt(conv_val, 0)
               /\ gt(cost, 0)
               /\ lt(roas, SCALE)
               /\ gt(cost, 100 * SCALE)
            THEN <<finding("HIGH", "ROAS Below Break-Even",
                           <<roas, cost, conv_val>>)>>
            ELSE <<>>)
        \o (IF /\ account_avg_cpa > 0
               /\ gt(cpa, (account_avg_cpa * 5) \div 2)
               /\ gt(cost, 50 * SCALE)
            THEN <<finding("HIGH", "CPA - Bidding Misalignment",
                           <<cpa, account_avg_cpa>>)>>
            ELSE <<>>)
        \o (IF /\ impr = Float(0)
               /\ cost = Float(0)
               /\ is_not_none(d._conv_rate.present, d._conv_rate.series, k)
            THEN <<finding("MEDIUM", "Delivery", <<>>)>> ELSE <<>>)

\* the result of bidding_strategy.analyze from its benchmarks, the
\* campaigns short of conversions and its findings
bidding_result(n, total_cost, total_conv, account_avg_cpa, smart_bidding_recommendations, findings) ==
    [summary  |-> <<"Analyzed bidding effectiveness", n,
                    Len(smart_bidding_recommendations), account_avg_cpa,
                    Len(findings)>>,
     findings |-> findings,
     smart_bidding_readiness |-> smart_bidding_recommendations,
     metrics  |-> [account_avg_cpa |-> account_avg_cpa,
                   total_conversions |-> total_conv,
                   total_cost |-> total_cost]]

\* bidding_strategy.analyze from the benchmarks on
bidding_report(df, name_col, d, total_cost, total_conv, account_avg_cpa) ==
    bidding_result(
        Len(df.rows), total_cost, total_conv, account_avg_cpa,
        findings_for(rows_where(Len(df.rows), LAMBDA k : unready(d, k)),
                     LAMBDA k : [campaign |-> df.rows[k][column_at(df, name_col)],
                                 conversions |-> row_value(d._conv, k)]),
        concat(Tuple([k \in 1..Len(df.rows) |->
                         bidding_row_checks(df, name_col, d, account_avg_cpa, k)],
                     Len(df.rows)))
        \o <<[severity |-> "INFO", area |-> "Smart Bidding Note",
              campaign |-> Text(<<"A","l","l"," ","c","a","m","p","a","i","g","n","s">>), detail |-> <<>>]>>)

\* the benchmarks of bidding_strategy.analyze
bidding_benchmarks(df, name_col, d) ==
    bidding_report(df, name_col, d, column_sum(d._cost), column_sum(d._conv),
                   safe_divide(column_sum(d._cost), column_sum(d._conv)))

\* bidding_strategy.analyze, from line 25 on
bidding_checks(df, name_col) ==
    bidding_benchmarks(df, name_col, derive(df, bidding_plan))

\* bidding_strategy.analyze(data_path)
bidding_strategy_analyze(load) ==
    LET loaded == load.data_path
    IN  IF loaded.kind = "raise" THEN loaded
        ELSE
        LET name_col == find_col(loaded.value, <<<<"C","a","m","p","a","i","g","n">>, <<"C","a","m","p","a","i","g","n"," ","n","a","m","e">>>>)
        IN  IF ~has(name_col)
            THEN Return(ErrorResult("Could not find Campaign column in campaigns.csv"))
            ELSE Return(bidding_checks(loaded.value, name_col))

\* audience_analysis.analyze(data_path)
audience_analysis_analyze(load) ==
    LET loaded == load.data_path
    IN  IF loaded.kind = "raise" THEN loaded
        ELSE IF ~has(find_col(loaded.value,
                       <<<<"A","u","d","i","e","n","c","e"," ","s","e","g","m","e","n","t">>, <<"A","u","d","i","e","n","c","e">>, <<"A","u","d","i","e","n","c","e"," ","n","a","m","e">>>>))
        THEN Return(ErrorResult("Could not find audience column in audiences.csv"))
        ELSE Return(Analysed("Analyzed audience segments"))

RECURSIVE nlargest(_, _, _)
\* DataFrame.nlargest(n, column): the positions in left of the n largest
\* values, largest first, the earlier position first among equals
nlargest(n, values, left) ==
    IF n = 0 \/ left = {} THEN <<>>
    ELSE LET best == CHOOSE i \in left : \A j \in left :
                        values[i] > values[j] \/ (values[i] = values[j] /\ i <= j)
         IN  <<best>> \o nlargest(n - 1, values, left \ {best})

\* the keys of df.groupby(col), in increasing order; missing keys are dropped
group_keys(df, col) ==
    sorted({str_of(df.rows[k][column_at(df, col)]) :
               k \in {r \in 1..Len(df.rows) : df.rows[r][column_at(df, col)] # NaN}})

\* the rows of the group of key
group_rows(df, col, key) ==
    {k \in 1..Len(df.rows) :
        /\ df.rows[k][column_at(df, col)] # NaN
        /\ str_of(df.rows[k][column_at(df, col)]) = key}

RECURSIVE sum_over(_, _)
\* the group's sum of a derived column: missing values are skipped
sum_over(series, ks) ==
    IF ks = {} THEN 0
    ELSE LET k == CHOOSE r \in ks : TRUE
         IN  (IF series[k] = None THEN 0 ELSE series[k].value)
             + sum_over(series, ks \ {k})

\* the group's mean of a derived column, nan when every value is missing
mean_over(series, ks) ==
    LET known == {k \in ks : series[k] # None}
    IN  IF known = {} THEN NaN
        ELSE Float(sum_over(series, known) \div Cardinality(known))

\* round(x) to a whole number, halves to the even neighbour, for x >= 0
round_half_even(units) ==
    LET q == units \div SCALE
        r == units % SCALE
    IN  IF 2 * r > SCALE \/ (2 * r = SCALE /\ q % 2 = 1) THEN q + 1 ELSE q

\* f"{x:.0f}"
fixed_0f(units) ==
    IF units < 0 THEN <<"-">> \o str_of_int(round_half_even(0 - units))
    ELSE str_of_int(round_half_even(units))

\* f"{x:+.0f}"
signed_0f(units) ==
    IF units < 0 THEN fixed_0f(units) ELSE <<"+">> \o fixed_0f(units)

\* max(-90, min(900, rec_adj)), in percent
clamp(rec_adj) ==
    LET capped == IF 900 * SCALE < rec_adj THEN 900 * SCALE ELSE rec_adj
    IN  IF capped > 0 - 90 * SCALE THEN capped ELSE 0 - 90 * SCALE

\* ((rate / average) - 1) * 100, in percent
relative_adj(rate, average) == safe_divide(rate, average) * 100 - 100 * SCALE

\* the derived columns of device_analysis.analyze
device_plan == [
    _cost      |-> [candidates |-> <<<<"C","o","s","t">>, <<"S","p","e","n","d">>>>,
                    cleaner |-> "clean_currency"],
    _conv      |-> [candidates |-> <<<<"C","o","n","v","e","r","s","i","o","n","s">>, <<"C","o","n","v",".">>>>,
                    cleaner |-> "clean_number"],
    _ctr       |-> [candidates |-> <<<<"C","T","R">>>>, cleaner |-> "clean_percentage"],
    _impr      |-> [candidates |-> <<<<"I","m","p","r","e","s","s","i","o","n","s">>, <<"I","m","p","r",".">>>>,
                    cleaner |-> "clean_number"],
    _clicks    |-> [candidates |-> <<<<"C","l","i","c","k","s">>>>, cleaner |-> "clean_number"],
    _conv_rate |-> [candidates |-> <<<<"C","o","n","v","."," ","r","a","t","e">>, <<"C","o","n","v","e","r","s","i","o","n"," ","r","a","t","e">>>>,
                    cleaner |-> "clean_percentage"],
    _cpa       |-> [candidates |-> <<<<"C","o","s","t"," ","/"," ","c","o","n","v",".">>, <<"C","o","s","t","/","c","o","n","v",".">>>>,
                    cleaner |-> "clean_currency"],
    _bid_adj   |-> [candidates |-> <<<<"B","i","d"," ","a","d","j","u","s","t","m","e","n","t">>, <<"B","i","d"," ","A","d","j","u","s","t","m","e","n","t">>>>,
                    cleaner |-> "clean_percentage"]]

\* the group's total of a derived column; the totals exist only when
\* '_cost' does, and row.get(total, 0) is 0 without them
device_total(d, column, ks) ==
    IF d._cost.present THEN sum_over(column.series, ks) ELSE 0

\* one row of agg, with the device's current adjustment
device_group(d, device, ks) ==
    [device |-> device,
     cost   |-> device_total(d, d._cost, ks),
     conv   |-> device_total(d, d._conv, ks),
     impr   |-> device_total(d, d._impr, ks),
     clicks |-> device_total(d, d._clicks, ks),
     current_adj |-> IF d._bid_adj.present THEN mean_over(d._bid_adj.series, ks)
                     ELSE Float(0)]

\* rec_adj of a device
device_rec_adj(conv_rate, account_avg_conv_rate) ==
    IF account_avg_conv_rate > 0 /\ conv_rate > 0
    THEN clamp(relative_adj(conv_rate, account_avg_conv_rate))
    ELSE 0

\* the metrics of a device from its totals
device_line(g, account_total_cost, account_avg_conv_rate) ==
    [device |-> Text(g.device), cost |-> g.cost,
     cost_share |-> safe_divide(g.cost, account_total_cost) * 100,
     conversions |-> g.conv,
     cpa |-> safe_divide(g.cost, g.conv),
     conv_rate |-> safe_divide(g.conv, g.clicks),
     ctr |-> safe_divide(g.clicks, g.impr),
     current_adj_pct |-> IF g.current_adj = NaN THEN NaN
                         ELSE Float(g.current_adj.u * 100),
     recommended_bid_adj |->
         Text(signed_0f(device_rec_adj(safe_divide(g.conv, g.clicks),
                                       account_avg_conv_rate)) \o <<"%">>)]

\* the checks of device_analysis.analyze on a device
device_row_checks(l, account_avg_cpa, has_desktop, desktop_conv_rate) ==
    LET finding(area, device, detail, adjustments) ==
            [severity |-> "HIGH", area |-> area, device |-> device,
             detail |-> detail, adjustments |-> adjustments]
    IN  (IF account_avg_cpa > 0
         THEN IF /\ 2 * l.cpa > 3 * account_avg_cpa
                 /\ l.cost > 50 * SCALE
                 /\ l.current_adj_pct # NaN
                 /\ l.current_adj_pct.u >= 0
              THEN <<finding("Device Bid", l.device,
                             <<"above", l.cpa, l.current_adj_pct>>,
                             <<l.recommended_bid_adj>>)>>
              ELSE IF /\ 10 * l.cpa < 7 * account_avg_cpa
                      /\ l.cost > 50 * SCALE
                      /\ l.current_adj_pct # NaN
                      /\ l.current_adj_pct.u <= 0
              THEN <<finding("Device Bid", l.device,
                             <<"below", l.cpa, account_avg_cpa>>,
                             <<l.recommended_bid_adj>>)>>
              ELSE <<>>
         ELSE <<>>)
        \o (IF /\ contains(lower(l.device.s), <<"m","o","b","i","l","e">>)
               /\ has_desktop
               /\ desktop_conv_rate > 0
               /\ 10 * l.conv_rate < 4 * desktop_conv_rate
            THEN <<finding("Mobile Experience", Text(<<"M","o","b","i","l","e">>),
                           <<l.conv_rate, desktop_conv_rate>>, <<>>)>>
            ELSE <<>>)

\* the result of device_analysis.analyze from the device table
device_result(lines, account_avg_cpa, account_avg_conv_rate, findings) ==
    [summary  |-> <<"Analyzed device performance", account_avg_cpa,
                    Len(lines), Len(findings)>>,
     findings |-> findings,
     device_performance_table |->
         Tuple([i \in 1..Len(lines) |->
                   [f \in DOMAIN lines[i] \ {"current_adj_pct"} |-> lines[i][f]]],
               Len(lines)),
     bid_adjustment_recommendations |->
         [device \in {lines[i].device.s : i \in 1..Len(lines)} |->
             LET l == CHOOSE x \in {lines[i] : i \in 1..Len(lines)} :
                          x.device.s = device
             IN  [current_adjustment |->
                      IF l.current_adj_pct = NaN THEN Text(<<"+","n","a","n","%">>)
                      ELSE Text(signed_0f(l.current_adj_pct.u) \o <<"%">>),
                  recommended_adjustment |-> l.recommended_bid_adj]],
     metrics  |-> [account_avg_cpa |-> account_avg_cpa,
                   account_avg_conv_rate |-> account_avg_conv_rate]]

\* the device loop of device_analysis.analyze; desktop holds the lines of
\* the devices named desktop
device_loop(lines, account_avg_cpa, account_avg_conv_rate, desktop) ==
    device_result(
        lines, account_avg_cpa, account_avg_conv_rate,
        concat(Tuple([i \in 1..Len(lines) |->
                         device_row_checks(lines[i], account_avg_cpa,
                                           desktop # <<>>,
                                           IF desktop = <<>> THEN 0
                                           ELSE desktop[1].conv_rate)],
                     Len(lines))))

\* the device table of device_analysis.analyze
device_table(lines, account_avg_cpa, account_avg_conv_rate) ==
    device_loop(lines, account_avg_cpa, account_avg_conv_rate,
                SelectSeq(lines, LAMBDA l : contains(lower(l.device.s), <<"d","e","s","k","t","o","p">>)))

\* the account figures of device_analysis.analyze; agg holds the totals of
\* the devices
device_account(agg, account_total_cost, account_total_conv, account_avg_conv_rate) ==
    device_table(Tuple([i \in 1..Len(agg) |->
                           device_line(agg[i], account_total_cost,
                                       account_avg_conv_rate)], Len(agg)),
                 safe_divide(account_total_cost, account_total_conv),
                 account_avg_conv_rate)

\* the aggregation of device_analysis.analyze
device_aggregate(df, device_col, d, devices) ==
    device_account(
        Tuple([i \in 1..Len(devices) |->
                  device_group(d, devices[i],
                               group_rows(df, device_col, devices[i]))],
              Len(devices)),
        IF d._cost.present THEN column_sum(d._cost) ELSE 0,
        IF d._cost.present THEN column_sum(d._conv) ELSE 0,
        IF d._cost.present
        THEN safe_divide(column_sum(d._conv), column_sum(d._clicks)) ELSE 0)

\* device_analysis.analyze, from line 26 on, for a table whose groupby
\* succeeds
device_checks(df, device_col) ==
    device_aggregate(df, device_col, derive(df, device_plan),
                     group_keys(df, device_col))

\* device_analysis.analyze(data_path): once '_cost' exists, groupby().agg()
\* names '_conv', '_impr' and '_clicks' and raises KeyError for one that
\* was never derived
device_analysis_analyze(load) ==
    LET loaded == load.data_path
    IN  IF loaded.kind = "raise" THEN loaded
        ELSE
        LET df == loaded.value
        IN  IF ~has(find_col(df, <<<<"D","e","v","i","c","e">>>>))
            THEN Return(ErrorResult("Could not find 'Device' column in devices.csv"))
            ELSE IF /\ has(cost_col_of(df))
                    /\ \/ ~has(conv_col_of(df))
                       \/ ~has(impr_col_of(df))
                       \/ ~has(clicks_col_of(df))
            THEN Raise("KeyError")
            ELSE Return(device_checks(df, find_col(df, <<<<"D","e","v","i","c","e">>>>)))

\* the derived columns of either half of time_analysis.analyze
time_plan == [
    _cost   |-> [candidates |-> <<<<"C","o","s","t">>, <<"S","p","e","n","d">>>>,
                 cleaner |-> "clean_currency"],
    _conv   |-> [candidates |-> <<<<"C","o","n","v","e","r","s","i","o","n","s">>, <<"C","o","n","v",".">>>>,
                 cleaner |-> "clean_number"],
    _clicks |-> [candidates |-> <<<<"C","l","i","c","k","s">>>>, cleaner |-> "clean_number"]]

\* a row of the table with its '_cpa' and '_conv_rate'
time_row(slot, cost, conv, clicks) ==
    [slot |-> slot, cost |-> cost, conversions |-> conv,
     cpa |-> safe_divide_row(cost, conv),
     conv_rate |-> safe_divide_row(conv, clicks)]

\* rec_adj of a slot; min(900, nan) is 900
time_rec_adj(conv_rate, avg_conv_rate) ==
    IF avg_conv_rate > 0
    THEN (IF conv_rate = NaN THEN 900 * SCALE
          ELSE clamp(relative_adj(conv_rate.u, avg_conv_rate)))
    ELSE 0

\* the rows by decreasing conversion rate, the rows without a rate last:
\* sort_values keeps equal rates in table order for tables this small
time_order(rows) ==
    nlargest(Len(rows),
             [k \in {r \in 1..Len(rows) : rows[r].conv_rate # NaN} |->
                 rows[k].conv_rate.u],
             {r \in 1..Len(rows) : rows[r].conv_rate # NaN})
    \o SelectSeq(Tuple([k \in 1..Len(rows) |-> k], Len(rows)),
                 LAMBDA k : rows[k].conv_rate = NaN)

\* the table and the findings of one half of time_analysis.analyze from its
\* rows: share is the reciprocal of the spend share above which a slot
\* without conversions is reported, adjustments are the bid adjustments its
\* recommendation names, ranked says whether the best and worst slots are
\* listed
time_table(rows, ordered, total_cost, avg_conv_rate, share, adjustments, ranked) ==
    LET n     == Len(rows)
        table == Tuple([k \in 1..n |->
                     rows[k] @@
                     [recommended_adj |->
                         Text(signed_0f(time_rec_adj(rows[k].conv_rate,
                                                     avg_conv_rate))
                              \o <<"%">>)]], n)
        slots(ks) == Tuple([i \in 1..Len(ks) |-> rows[ks[i]].slot], Len(ks))
    IN  [results  |-> IF ranked
                      THEN [table |-> table,
                            top_performing_hours |->
                                slots(SubSeq(ordered, 1, IF n < 3 THEN n ELSE 3)),
                            worst_performing_hours |->
                                slots(SubSeq(ordered, IF n < 3 THEN 1 ELSE n - 2, n))]
                      ELSE [table |-> table],
         findings |->
             findings_for(
                 rows_where(n, LAMBDA k :
                     /\ rows[k].cost # NaN
                     /\ total_cost # 0
                     /\ share * rows[k].cost.u > total_cost
                     /\ rows[k].conversions = Float(0)),
                 LAMBDA k : [severity |-> "HIGH",
                             area |-> IF ranked
                                      THEN "Time of Day - Wasted Spend"
                                      ELSE "Day of Week - Wasted Spend",
                             slot |-> rows[k].slot,
                             detail |-> <<safe_divide_row(rows[k].cost,
                                                          Float(total_cost)),
                                          rows[k].cost>>,
                             adjustments |-> adjustments])]

\* the ranking of one half of time_analysis.analyze
time_ranking(rows, total_cost, avg_conv_rate, share, adjustments, ranked) ==
    time_table(rows, time_order(rows), total_cost, avg_conv_rate, share,
               adjustments, ranked)

\* the rows and the averages of one half of time_analysis.analyze
time_rates(df, slot_col, d, share, adjustments, ranked) ==
    time_ranking(Tuple([k \in 1..Len(df.rows) |->
                           time_row(df.rows[k][column_at(df, slot_col)],
                                    row_value(d._cost, k), row_value(d._conv, k),
                                    row_value(d._clicks, k))], Len(df.rows)),
                 column_sum(d._cost),
                 safe_divide(column_sum(d._conv), column_sum(d._clicks)),
                 share, adjustments, ranked)

\* one half of time_analysis.analyze for a table with the hour (day) column
time_checks(df, slot_col, share, adjustments, ranked) ==
    time_rates(df, slot_col, derive(df, time_plan), share, adjustments, ranked)

\* one half of time_analysis.analyze: try: load, look up, analyse
\* except FileNotFoundError: {"error": ...}.  Without the hour (day)
\* column the half's result stays {}, here <<>>, and nothing is reported.
time_half(loaded, candidates, missing_note, share, adjustments, ranked) ==
    IF loaded.kind = "raise"
    THEN IF loaded.exc = "FileNotFoundError"
         THEN Return([results |-> ErrorResult(missing_note), findings |-> <<>>])
         ELSE loaded
    ELSE IF has(find_col(loaded.value, candidates))
    THEN Return(time_checks(loaded.value, find_col(loaded.value, candidates),
                            share, adjustments, ranked))
    ELSE Return([results |-> <<>>, findings |-> <<>>])

\* 'complete' if 'error' not in results else 'skipped'
half_state(results) ==
    IF "error" \in DOMAIN results THEN "skipped" ELSE "complete"

\* the summary and the result of time_analysis.analyze
time_result(tod, dow) ==
    [summary     |-> <<"Time performance analysis complete",
                       half_state(tod.results), half_state(dow.results),
                       Len(tod.findings \o dow.findings)>>,
     findings    |-> tod.findings \o dow.findings,
     hour_of_day |-> tod.results,
     day_of_week |-> dow.results]

\* time_analysis.analyze once the day-of-week half has run
time_days_done(tod, dow) ==
    IF dow.kind = "raise" THEN dow ELSE Return(time_result(tod.value, dow.value))

\* time_analysis.analyze once the hour-of-day half has run
time_hours_done(tod, load) ==
    IF tod.kind = "raise" THEN tod
    ELSE time_days_done(tod, time_half(load.dow_path,
                                       <<<<"D","a","y"," ","o","f"," ","w","e","e","k">>, <<"D","a","y">>>>,
                                       "day_of_week.csv not found",
                                       10, <<Text(<<"-","5","0","%">>)>>, FALSE))

\* time_analysis.analyze(tod_path, dow_path)
time_analysis_analyze(load) ==
    time_hours_done(time_half(load.tod_path,
                              <<<<"H","o","u","r"," ","o","f"," ","d","a","y">>, <<"H","o","u","r">>>>,
                              "time_of_day.csv not found",
                              20, <<Text(<<"-","5","0","%">>), Text(<<"-","1","0","0","%">>)>>, TRUE),
                    load)

\* extension_analysis.analyze(data_path)
extension_analysis_analyze(load) ==
    LET loaded == load.data_path
    IN  IF loaded.kind = "raise" THEN loaded
        ELSE IF ~has(find_col(loaded.value, <<<<"E","x","t","e","n","s","i","o","n"," ","t","y","p","e">>, <<"T","y","p","e">>>>))
        THEN Return(ErrorResult("Could not find 'Extension type' column in extensions.csv"))
        ELSE Return(Analysed("Analyzed extension entries"))

\* the derived columns of geo_analysis.analyze
geo_plan == [
    _cost      |-> [candidates |-> <<<<"C","o","s","t">>, <<"S","p","e","n","d">>>>,
                    cleaner |-> "clean_currency"],
    _conv      |-> [candidates |-> <<<<"C","o","n","v","e","r","s","i","o","n","s">>, <<"C","o","n","v",".">>>>,
                    cleaner |-> "clean_number"],
    _ctr       |-> [candidates |-> <<<<"C","T","R">>>>, cleaner |-> "clean_percentage"],
    _impr      |-> [candidates |-> <<<<"I","m","p","r","e","s","s","i","o","n","s">>, <<"I","m","p","r",".">>>>,
                    cleaner |-> "clean_number"],
    _clicks    |-> [candidates |-> <<<<"C","l","i","c","k","s">>>>, cleaner |-> "clean_number"],
    _conv_rate |-> [candidates |-> <<<<"C","o","n","v","."," ","r","a","t","e">>, <<"C","o","n","v","e","r","s","i","o","n"," ","r","a","t","e">>>>,
                    cleaner |-> "clean_percentage"],
    _cpa       |-> [candidates |-> <<<<"C","o","s","t"," ","/"," ","c","o","n","v",".">>, <<"C","o","s","t","/","c","o","n","v",".">>>>,
                    cleaner |-> "clean_currency"]]

\* the totals of a location: without a clicks column total_clicks counts the
\* rows that have a cost
geo_totals(d, location, ks) ==
    [location     |-> Text(location),
     total_cost   |-> sum_over(d._cost.series, ks),
     total_conv   |-> sum_over(d._conv.series, ks),
     total_clicks |-> IF d._clicks.present THEN sum_over(d._clicks.series, ks)
                      ELSE Cardinality({k \in ks : d._cost.series[k] # None})
                           * SCALE]

\* one row of agg, with its '_cpa' and '_conv_rate'
geo_group(t) ==
    [location |-> t.location, total_cost |-> t.total_cost,
     total_conv |-> t.total_conv,
     _cpa |-> safe_divide(t.total_cost, t.total_conv),
     _conv_rate |-> safe_divide(t.total_conv, t.total_clicks)]

\* the branch of the location loop a location takes
geo_verdict(g, total_cost, avg_cpa, avg_conv_rate) ==
    IF total_cost # 0 /\ 20 * g.total_cost > total_cost /\ g.total_conv = 0
    THEN "Geographic Waste"
    ELSE IF avg_cpa > 0 /\ g._cpa > avg_cpa * 2 /\ g.total_cost > avg_cpa
    THEN "Geographic CPA"
    ELSE IF /\ gt(avg_conv_rate, 0)
            /\ 2 * g._conv_rate > 3 * avg_conv_rate.u
            /\ g.total_cost > 30 * SCALE
    THEN "Geographic Opportunity"
    ELSE "none"

\* f"+{(conv_rate/avg_conv_rate - 1) * 100:.0f}%"
geo_adj(g, avg_conv_rate) ==
    Text(<<"+">> \o fixed_0f(relative_adj(g._conv_rate, avg_conv_rate.u))
         \o <<"%">>)

\* what the location loop appends for a location
geo_finding(g, verdict, total_cost, avg_cpa, avg_conv_rate) ==
    CASE verdict = "Geographic Waste" ->
            <<[severity |-> "HIGH", area |-> verdict, location |-> g.location,
               detail |-> <<safe_divide(g.total_cost, total_cost), g.total_cost>>,
               adjustments |-> <<>>]>>
      [] verdict = "Geographic CPA" ->
            <<[severity |-> "MEDIUM", area |-> verdict, location |-> g.location,
               detail |-> <<g._cpa, avg_cpa>>, adjustments |-> <<>>]>>
      [] verdict = "Geographic Opportunity" ->
            <<[severity |-> "MEDIUM", area |-> verdict, location |-> g.location,
               detail |-> <<g._conv_rate, avg_conv_rate>>,
               adjustments |-> <<geo_adj(g, avg_conv_rate)>>]>>
      [] verdict = "none" -> <<>>

\* the positions of agg with the verdict
geo_with(verdicts, verdict) ==
    SelectSeq(Tuple([i \in 1..Len(verdicts) |-> i], Len(verdicts)),
              LAMBDA i : verdicts[i] = verdict)

\* the result of geo_analysis.analyze from agg, the rankings and the
\* verdicts of the location loop
geo_result(agg, top, worst, verdicts, total_cost, avg_cpa, avg_conv_rate, total_waste) ==
    [summary  |-> <<"Analyzed geographic performance", Len(agg), total_cost,
                    Len(geo_with(verdicts, "Geographic Waste")), total_waste,
                    Len(geo_with(verdicts, "Geographic Opportunity")),
                    Len(agg) - Len(geo_with(verdicts, "none"))>>,
     findings |->
         concat(Tuple([i \in 1..Len(agg) |->
                          geo_finding(agg[i], verdicts[i], total_cost, avg_cpa,
                                      avg_conv_rate)], Len(agg))),
     top_locations_by_conversions |->
         Tuple([i \in 1..Len(top) |->
                   [f \in DOMAIN agg[top[i]] \ {"_conv_rate"} |-> agg[top[i]][f]]],
               Len(top)),
     worst_locations_by_cpa |->
         Tuple([i \in 1..Len(worst) |->
                   [f \in DOMAIN agg[worst[i]] \ {"_conv_rate"} |->
                       agg[worst[i]][f]]],
               Len(worst)),
     exclusion_candidates |->
         findings_for(geo_with(verdicts, "Geographic Waste"),
                      LAMBDA i : [location |-> agg[i].location,
                                  cost_wasted |-> agg[i].total_cost,
                                  cost_share |-> safe_divide(agg[i].total_cost,
                                                             total_cost)]),
     bid_up_candidates |->
         findings_for(geo_with(verdicts, "Geographic Opportunity"),
                      LAMBDA i : [location |-> agg[i].location,
                                  conv_rate |-> agg[i]._conv_rate,
                                  cpa |-> agg[i]._cpa,
                                  recommended_adj |-> geo_adj(agg[i], avg_conv_rate)]),
     metrics  |-> [total_locations |-> Len(agg), account_avg_cpa |-> avg_cpa,
                   total_wasted_spend_on_exclusions |-> total_waste]]

\* the spend of the exclusion candidates
geo_waste(agg, verdicts) ==
    series_sum(Tuple([i \in 1..Len(agg) |->
                         IF verdicts[i] = "Geographic Waste"
                         THEN Some(agg[i].total_cost) ELSE None], Len(agg)), 1)

\* the location loop of geo_analysis.analyze
geo_loop(agg, top, worst, verdicts, total_cost, avg_cpa, avg_conv_rate) ==
    geo_result(agg, top, worst, verdicts, total_cost, avg_cpa, avg_conv_rate,
               geo_waste(agg, verdicts))

\* the rankings of geo_analysis.analyze: the locations with most
\* conversions, and those with the worst CPA among the ones that spent
\* more than max(avg_cpa * 2, 20), or than 20 without an average
geo_rankings(agg, total_cost, avg_cpa, avg_conv_rate) ==
    geo_loop(agg,
             nlargest(5, Tuple([i \in 1..Len(agg) |-> agg[i].total_conv],
                               Len(agg)), 1..Len(agg)),
             nlargest(5, Tuple([i \in 1..Len(agg) |-> agg[i]._cpa], Len(agg)),
                      {i \in 1..Len(agg) :
                          agg[i].total_cost >
                              IF avg_cpa > 0 /\ avg_cpa * 2 > 20 * SCALE
                              THEN avg_cpa * 2 ELSE 20 * SCALE}),
             Tuple([i \in 1..Len(agg) |->
                       geo_verdict(agg[i], total_cost, avg_cpa, avg_conv_rate)],
                   Len(agg)),
             total_cost, avg_cpa, avg_conv_rate)

\* the aggregation of geo_analysis.analyze
geo_aggregate(df, location_col, d, locations) ==
    geo_rankings(
        Tuple([i \in 1..Len(locations) |->
                  geo_group(geo_totals(d, locations[i],
                                       group_rows(df, location_col, locations[i])))],
              Len(locations)),
        column_sum(d._cost),
        safe_divide(column_sum(d._cost), column_sum(d._conv)),
        IF d._conv_rate.present THEN series_mean(d._conv_rate.series)
        ELSE Float(safe_divide(column_sum(d._conv), column_sum(d._clicks))))

\* geo_analysis.analyze, from line 28 on, for a table with a cost and a
\* conversions column
geo_checks(df, location_col) ==
    geo_aggregate(df, location_col, derive(df, geo_plan),
                  group_keys(df, location_col))

\* geo_analysis.analyze(data_path): groupby().agg() names '_cost' and
\* '_conv' whether or not they were derived
geo_analysis_analyze(load) ==
    LET loaded == load.data_path
    IN  IF loaded.kind = "raise" THEN loaded
        ELSE
        LET df == loaded.value
            country_col == find_col(df, <<<<"C","o","u","n","t","r","y","/","T","e","r","r","i","t","o","r","y">>, <<"C","o","u","n","t","r","y">>,
                                          <<"C","o","u","n","t","r","y"," ","t","e","r","r","i","t","o","r","y">>>>)
            region_col  == find_col(df, <<<<"R","e","g","i","o","n">>, <<"S","t","a","t","e">>>>)
            city_col    == find_col(df, <<<<"C","i","t","y">>>>)
        IN  IF ~has(city_col) /\ ~has(region_col) /\ ~has(country_col)
            THEN Return(ErrorResult("Could not find a location column (City/Region/Country) in geographic.csv"))
            ELSE IF ~has(cost_col_of(df)) \/ ~has(conv_col_of(df))
            THEN Raise("KeyError")
            ELSE Return(geo_checks(df, IF has(city_col) THEN city_col
                                       ELSE IF has(region_col) THEN region_col
                                       ELSE country_col))

----------------------------------------------------------------------------
(* tools/search_term_analysis.py *)

\* x >= bound for a float x: False for nan
ge(x, bound) == x # NaN /\ x.u >= bound

\* the derived columns of search_term_analysis.analyze
search_term_plan == [
    _cost      |-> [candidates |-> <<<<"C","o","s","t">>, <<"S","p","e","n","d">>>>,
                    cleaner |-> "clean_currency"],
    _conv      |-> [candidates |-> <<<<"C","o","n","v","e","r","s","i","o","n","s">>, <<"C","o","n","v",".">>>>,
                    cleaner |-> "clean_number"],
    _ctr       |-> [candidates |-> <<<<"C","T","R">>>>, cleaner |-> "clean_percentage"],
    _impr      |-> [candidates |-> <<<<"I","m","p","r","e","s","s","i","o","n","s">>, <<"I","m","p","r",".">>>>,
                    cleaner |-> "clean_number"],
    _clicks    |-> [candidates |-> <<<<"C","l","i","c","k","s">>>>, cleaner |-> "clean_number"],
    _conv_rate |-> [candidates |-> <<<<"C","o","n","v","."," ","r","a","t","e">>, <<"C","o","n","v","e","r","s","i","o","n"," ","r","a","t","e">>>>,
                    cleaner |-> "clean_percentage"]]

\* existing_keywords: the keywords of the keywords file, lowered and
\* stripped; empty when the file or its keyword column cannot be had
existing_keywords_of(kloaded) ==
    IF kloaded.kind = "raise" THEN {}
    ELSE LET kdf    == kloaded.value
             kw_col == find_col(kdf, <<<<"K","e","y","w","o","r","d">>, <<"K","e","y","w","o","r","d"," ","t","e","x","t">>>>)
         IN  IF ~has(kw_col) THEN {}
             ELSE {strip(lower(str_of(kdf.rows[k][column_at(kdf, kw_col)]))) :
                      k \in 1..Len(kdf.rows)}

\* str(row.get(term_col, '')).strip() for every row
search_terms_of(df, term_col) ==
    Tuple([k \in 1..Len(df.rows) |->
              strip(str_of(df.rows[k][column_at(df, term_col)]))], Len(df.rows))

\* str(row.get(added_col, '')).lower() if added_col else '' for every row
added_status_of(df, added_col) ==
    Tuple([k \in 1..Len(df.rows) |->
              IF has(added_col)
              THEN lower(str_of(df.rows[k][column_at(df, added_col)]))
              ELSE <<>>], Len(df.rows))

\* already_added: the terms of the rows marked added
already_added_of(terms, added) ==
    {lower(terms[k]) : k \in {r \in 1..Len(terms) : contains(added[r], <<"a","d","d","e","d">>)}}

\* the benchmarks: avg_cpa, avg_ctr, avg_conv_rate and the waste threshold
\* max(avg_cpa * 1.5, 20) if avg_cpa > 0 else 30
search_term_averages(d) ==
    LET total_cost == column_sum(d._cost)
        avg_cpa    == safe_divide(total_cost, column_sum(d._conv))
    IN  [total_cost |-> total_cost,
         avg_ctr |-> IF d._ctr.present THEN series_mean(d._ctr.series)
                     ELSE Float(0),
         avg_conv_rate |-> IF d._conv_rate.present
                           THEN series_mean(d._conv_rate.series)
                           ELSE Float(0),
         waste_threshold |->
             IF avg_cpa > 0
             THEN (IF 3 * avg_cpa > 40 * SCALE THEN (3 * avg_cpa) \div 2
                   ELSE 20 * SCALE)
             ELSE 30 * SCALE]

\* the branch of the harvest loop row k takes
harvest_verdict(term, known, conv, clicks, ctr, conv_rate, avg) ==
    IF lower(term) \in known THEN "known"
    ELSE IF /\ ge(conv, 2 * SCALE)
            /\ \/ avg.avg_conv_rate = Float(0)
               \/ /\ avg.avg_conv_rate # NaN
                  /\ gt(conv_rate, avg.avg_conv_rate.u)
    THEN "converting"
    ELSE IF /\ ge(clicks, 10 * SCALE)
            /\ avg.avg_ctr # NaN /\ avg.avg_ctr.u > 0
            /\ ctr # NaN /\ 2 * ctr.u > 3 * avg.avg_ctr.u
            /\ conv = Float(0)
    THEN "high_ctr"
    ELSE "none"

\* the branch of the negative keyword loop row k takes
negative_verdict(added_status, cost, conv, impr, ctr, avg) ==
    IF contains(added_status, <<"e","x","c","l","u","d","e","d">>) THEN "excluded"
    ELSE IF gt(cost, avg.waste_threshold) /\ conv = Float(0) THEN "wasted"
    ELSE IF gt(impr, 500 * SCALE) /\ lt(ctr, SCALE \div 500) THEN "irrelevant"
    ELSE "none"

\* the verdicts of both loops on every row
search_term_verdicts(terms, added, known, d, avg) ==
    Tuple([k \in 1..Len(terms) |->
              [harvest  |-> harvest_verdict(terms[k], known,
                                row_value(d._conv, k), row_value(d._clicks, k),
                                row_value(d._ctr, k), row_value(d._conv_rate, k),
                                avg),
               negative |-> negative_verdict(added[k],
                                row_value(d._cost, k), row_value(d._conv, k),
                                row_value(d._impr, k), row_value(d._ctr, k),
                                avg)]],
          Len(terms))

\* the rows, in table order, whose verdict of a loop is among wanted
rows_with(verdicts, loop, wanted) ==
    SelectSeq(Tuple([k \in 1..Len(verdicts) |-> k], Len(verdicts)),
              LAMBDA k : verdicts[k][loop] \in wanted)

\* term.lower().split()[0], <<>> for a term without a word
first_word(term) ==
    LET t    == strip(lower(term))
        ends == {i \in 1..Len(t) : is_space(t[i])}
    IN  IF ends = {} THEN t ELSE SubSeq(t, 1, SetMin(ends) - 1)

\* sorted(theme_counts.items(), key=frequency, reverse=True)[:10]: the first
\* words in the order they first came up, the more frequent first
negative_themes(words) ==
    LET named == SelectSeq(words, LAMBDA w : w # <<>>)
        firsts == SelectSeq(Tuple([i \in 1..Len(named) |-> i], Len(named)),
                            LAMBDA i : \A j \in 1..(i - 1) : named[j] # named[i])
        count == Tuple([i \in 1..Len(firsts) |->
                           Cardinality({j \in 1..Len(named) :
                                           named[j] = named[firsts[i]]})],
                       Len(firsts))
        order == nlargest(10, count, 1..Len(firsts))
    IN  Tuple([i \in 1..Len(order) |->
                  [word |-> named[firsts[order[i]]], frequency |-> count[order[i]]]],
              Len(order))

\* the result of search_term_analysis.analyze from the rows each loop
\* picked: int(clicks) and int(impr) raise ValueError on nan
search_term_result(df, terms, d, avg, harvest, converting, wasted, reported) ==
    IF \/ \E i \in 1..Len(harvest) : row_value(d._clicks, harvest[i]) = NaN
       \/ \E i \in 1..Len(wasted) : row_value(d._impr, wasted[i]) = NaN
    THEN Raise("ValueError")
    ELSE Return(
        [summary  |-> <<"Analyzed search terms", Len(df.rows), avg.total_cost,
                        Len(harvest), Len(wasted)>>,
         findings |->
             Tuple([i \in 1..Len(converting) |->
                       [severity |-> "HIGH", area |-> "Keyword Opportunity",
                        row |-> converting[i],
                        detail |-> <<terms[converting[i]],
                                     row_value(d._conv, converting[i])>>]],
                   Len(converting))
             \o Tuple([i \in 1..Len(reported) |->
                       IF reported[i] \in {wasted[j] : j \in 1..Len(wasted)}
                       THEN [severity |-> "HIGH",
                             area |-> "Wasted Search Term Spend",
                             row |-> reported[i],
                             detail |-> <<terms[reported[i]],
                                          row_value(d._cost, reported[i])>>]
                       ELSE [severity |-> "LOW",
                             area |-> "Irrelevant Search Term",
                             row |-> reported[i],
                             detail |-> <<terms[reported[i]],
                                          row_value(d._impr, reported[i]),
                                          row_value(d._ctr, reported[i])>>]],
                   Len(reported)),
         harvest_candidates |->
             Tuple([i \in 1..Len(harvest) |->
                       [search_term |-> terms[harvest[i]],
                        clicks |-> row_value(d._clicks, harvest[i]).u \div SCALE,
                        conversions |-> row_value(d._conv, harvest[i])]],
                   Len(harvest)),
         negative_keyword_candidates |->
             Tuple([i \in 1..Len(wasted) |->
                       [search_term |-> terms[wasted[i]],
                        cost_wasted |-> row_value(d._cost, wasted[i])]],
                   Len(wasted)),
         top_negative_themes |->
             negative_themes(Tuple([i \in 1..Len(wasted) |->
                                       first_word(terms[wasted[i]])], Len(wasted))),
         metrics |-> [total_search_terms |-> Len(df.rows),
                      total_spend |-> avg.total_cost]])

\* both loops of search_term_analysis.analyze
search_term_loops(df, terms, d, avg, verdicts) ==
    search_term_result(df, terms, d, avg,
                       rows_with(verdicts, "harvest", {"converting", "high_ctr"}),
                       rows_with(verdicts, "harvest", {"converting"}),
                       rows_with(verdicts, "negative", {"wasted"}),
                       rows_with(verdicts, "negative", {"wasted", "irrelevant"}))

\* search_term_analysis.analyze once the benchmarks are there
search_term_report(df, terms, added, known, d, avg) ==
    search_term_loops(df, terms, d, avg,
                      search_term_verdicts(terms, added, known, d, avg))

\* search_term_analysis.analyze once the derived columns are there
search_term_marks(df, terms, added, existing_keywords, d) ==
    search_term_report(df, terms, added,
                       already_added_of(terms, added) \cup existing_keywords,
                       d, search_term_averages(d))

\* search_term_analysis.analyze, from line 28 on
search_term_checks(df, term_col, kloaded) ==
    search_term_marks(df, search_terms_of(df, term_col),
                      added_status_of(df, find_col(df, <<<<"A","d","d","e","d"," ","/"," ","E","x","c","l","u","d","e","d">>,
                                                        <<"M","a","t","c","h"," ","t","y","p","e">>,
                                                        <<"A","d","d","e","d","/","E","x","c","l","u","d","e","d">>>>)),
                      existing_keywords_of(kloaded),
                      derive(df, search_term_plan))

\* search_term_analysis.analyze(data_path, keywords_path): the keywords
\* file is read inside try/except Exception
search_term_analysis_analyze(load) ==
    LET loaded == load.data_path
    IN  IF loaded.kind = "raise" THEN loaded
        ELSE
        LET term_col == find_col(loaded.value, <<<<"S","e","a","r","c","h"," ","t","e","r","m">>, <<"S","e","a","r","c","h"," ","T","e","r","m">>>>)
        IN  IF ~has(term_col)
            THEN Return(ErrorResult("Could not find 'Search term' column in search_terms.csv"))
            ELSE search_term_checks(loaded.value, term_col, load.keywords_path)

----------------------------------------------------------------------------
(* tools/ad_group_structure.py *)

\* the derived columns of ad_group_structure.analyze
ad_group_plan == [
    _cost |-> [candidates |-> <<<<"C","o","s","t">>, <<"S","p","e","n","d">>>>, cleaner |-> "clean_currency"],
    _conv |-> [candidates |-> <<<<"C","o","n","v","e","r","s","i","o","n","s">>, <<"C","o","n","v",".">>>>,
               cleaner |-> "clean_number"],
    _ctr  |-> [candidates |-> <<<<"C","T","R">>>>, cleaner |-> "clean_percentage"],
    _impr |-> [candidates |-> <<<<"I","m","p","r","e","s","s","i","o","n","s">>, <<"I","m","p","r",".">>>>,
               cleaner |-> "clean_number"]]

\* the find_col calls of ad_group_structure.analyze after the ad group's
ad_group_columns(df) ==
    [campaign |-> find_col(df, <<<<"C","a","m","p","a","i","g","n">>>>),
     status   |-> find_col(df, <<<<"A","d"," ","g","r","o","u","p"," ","s","t","a","t","u","s">>, <<"S","t","a","t","u","s">>>>),
     max_cpc  |-> find_col(df, <<<<"D","e","f","a","u","l","t"," ","m","a","x","."," ","C","P","C">>, <<"D","e","f","a","u","l","t"," ","M","a","x"," ","C","P","C">>,
                                 <<"M","a","x"," ","C","P","C">>>>)]

\* kw_counts as pairs <<campaign, ad group>> of the active keywords that
\* have both, one pair per keyword row; empty when the keywords file or
\* one of the two columns cannot be had
kw_pairs_of(kloaded) ==
    IF kloaded.kind = "raise" THEN <<>>
    ELSE LET kdf    == kloaded.value
             ag     == find_col(kdf, <<<<"A","d"," ","g","r","o","u","p">>>>)
             camp   == find_col(kdf, <<<<"C","a","m","p","a","i","g","n">>>>)
             status == find_col(kdf, <<<<"S","t","a","t","u","s">>, <<"K","e","y","w","o","r","d"," ","s","t","a","t","u","s">>>>)
             cell(k, col) == kdf.rows[k][column_at(kdf, col)]
             active(k) ==
                 \/ ~has(status)
                 \/ ~(\/ contains(lower(str_of(cell(k, status))), <<"r","e","m","o","v","e","d">>)
                      \/ contains(lower(str_of(cell(k, status))), <<"p","a","u","s","e","d">>))
             counted == SelectSeq(Tuple([k \in 1..Len(kdf.rows) |-> k],
                                        Len(kdf.rows)),
                                  LAMBDA k : /\ active(k)
                                             /\ cell(k, camp) # NaN
                                             /\ cell(k, ag) # NaN)
         IN  IF ~(has(ag) /\ has(camp)) THEN <<>>
             ELSE Tuple([i \in 1..Len(counted) |->
                            <<str_of(cell(counted[i], camp)),
                              str_of(cell(counted[i], ag))>>],
                        Len(counted))

\* kw_counts.get(f"{camp}|{ag}", None) for row k: 0 stands for None
kw_count_of(df, ag_col, cols, pairs, k) ==
    Cardinality({i \in 1..Len(pairs) :
        pairs[i] = <<IF has(cols.campaign)
                     THEN str_of(df.rows[k][column_at(df, cols.campaign)])
                     ELSE <<>>,
                     str_of(df.rows[k][column_at(df, ag_col)])>>})

\* the checks of ad_group_structure.analyze on row k, in the order the code
\* makes them
ad_group_row_checks(df, ag_col, cols, d, avg_cpa, kw_count, k) ==
    LET ag      == df.rows[k][column_at(df, ag_col)]
        cost    == row_value(d._cost, k)
        conv    == row_value(d._conv, k)
        impr    == row_value(d._impr, k)
        ctr     == row_value(d._ctr, k)
        status  == IF has(cols.status)
                   THEN lower(str_of(df.rows[k][column_at(df, cols.status)]))
                   ELSE <<>>
        max_cpc == IF has(cols.max_cpc)
                   THEN clean_currency(df.rows[k][column_at(df, cols.max_cpc)])
                   ELSE None
        threshold ==
            IF avg_cpa > 0
            THEN (IF avg_cpa * 3 > 50 * SCALE THEN avg_cpa * 3 ELSE 50 * SCALE)
            ELSE 75 * SCALE
        finding(severity, area, detail) ==
            [severity |-> severity, area |-> area, ad_group |-> ag,
             detail |-> detail]
    IN  (IF kw_count > 20
         THEN <<finding("MEDIUM", "Ad Group Structure", <<kw_count>>)>> ELSE <<>>)
        \o (IF kw_count = 1
            THEN <<finding("LOW", "Ad Group Structure", <<>>)>> ELSE <<>>)
        \o (IF gt(cost, threshold) /\ conv = Float(0)
            THEN <<finding("HIGH", "Wasted Ad Group Spend", <<cost>>)>> ELSE <<>>)
        \o (IF /\ ctr # Float(0)
               /\ lt(ctr, SCALE \div 200)
               /\ gt(impr, 1000 * SCALE)
            THEN <<finding("MEDIUM", "CTR", <<ctr, impr>>)>> ELSE <<>>)
        \o (IF max_cpc = Some(0) /\ contains(status, <<"e","n","a","b","l","e","d">>)
            THEN <<finding("MEDIUM", "Bidding", <<>>)>> ELSE <<>>)

\* the campaigns with more than 50 ad groups, one LOW finding each
ad_group_bloated(df, ag_col, cols) ==
    IF ~has(cols.campaign) THEN <<>>
    ELSE LET camps == group_keys(df, cols.campaign)
             nunique(camp) ==
                 Cardinality({df.rows[k][column_at(df, ag_col)] :
                                 k \in group_rows(df, cols.campaign, camp)}
                             \ {NaN})
             bloated == SelectSeq(camps, LAMBDA camp : nunique(camp) > 50)
         IN  Tuple([i \in 1..Len(bloated) |->
                       [severity |-> "LOW", area |-> "Account Structure",
                        campaign |-> bloated[i],
                        detail |-> <<nunique(bloated[i])>>]],
                   Len(bloated))

\* the result of ad_group_structure.analyze from its findings
ad_group_result(n, findings) ==
    LET count(area) ==
            Cardinality({i \in 1..Len(findings) : findings[i].area = area})
    IN  [summary  |-> <<"Analyzed ad groups", n, Len(findings)>>,
         findings |-> findings,
         metrics  |-> [total_ad_groups |-> n,
                       ad_groups_too_many_keywords |->
                           Cardinality({i \in 1..Len(findings) :
                               /\ findings[i].area = "Ad Group Structure"
                               /\ findings[i].severity = "MEDIUM"}),
                       single_keyword_ad_groups |->
                           Cardinality({i \in 1..Len(findings) :
                               /\ findings[i].area = "Ad Group Structure"
                               /\ findings[i].severity = "LOW"}),
                       zero_conversion_ad_groups |->
                           count("Wasted Ad Group Spend")]]

\* ad_group_structure.analyze from the row loop on
ad_group_loop(df, ag_col, cols, d, avg_cpa, pairs) ==
    ad_group_result(
        Len(df.rows),
        concat(Tuple([k \in 1..Len(df.rows) |->
                         ad_group_row_checks(df, ag_col, cols, d, avg_cpa,
                             kw_count_of(df, ag_col, cols, pairs, k), k)],
                     Len(df.rows)))
        \o ad_group_bloated(df, ag_col, cols))

\* the benchmarks of ad_group_structure.analyze
ad_group_benchmarks(df, ag_col, cols, d, pairs) ==
    ad_group_loop(df, ag_col, cols, d,
                  safe_divide(column_sum(d._cost), column_sum(d._conv)), pairs)

\* ad_group_structure.analyze, from line 25 on
ad_group_checks(df, ag_col, kloaded) ==
    ad_group_benchmarks(df, ag_col, ad_group_columns(df),
                        derive(df, ad_group_plan), kw_pairs_of(kloaded))

\* ad_group_structure.analyze(data_path, keywords_path): the keywords
\* file is read inside try/except Exception
ad_group_structure_analyze(load) ==
    LET loaded == load.data_path
    IN  IF loaded.kind = "raise" THEN loaded
        ELSE
        LET ag_col == find_col(loaded.value, <<<<"A","d"," ","g","r","o","u","p">>, <<"A","d"," ","G","r","o","u","p">>>>)
        IN  IF ~has(ag_col)
            THEN Return(ErrorResult("Could not find 'Ad group' column in ad_groups.csv"))
            ELSE Return(ad_group_checks(loaded.value, ag_col, load.keywords_path))

----------------------------------------------------------------------------
(* tools/budget_pacing.py *)

\* the derived columns of budget_pacing.analyze
budget_pacing_plan == [
    _cost   |-> [candidates |-> <<<<"C","o","s","t">>, <<"S","p","e","n","d">>>>, cleaner |-> "clean_currency"],
    _budget |-> [candidates |-> <<<<"B","u","d","g","e","t">>, <<"D","a","i","l","y"," ","b","u","d","g","e","t">>>>,
                 cleaner |-> "clean_currency"],
    _lost_b |-> [candidates |-> <<<<"S","e","a","r","c","h"," ","l","o","s","t"," ","I","S"," ","(","b","u","d","g","e","t",")">>,
                                  <<"S","e","a","r","c","h"," ","L","o","s","t"," ","I","S"," ","(","b","u","d","g","e","t",")">>>>,
                 cleaner |-> "clean_percentage"]]

\* str(row.get(col, '')).lower() if col else ''
lowered_cell(df, col, k) ==
    IF has(col) THEN lower(str_of(df.rows[k][column_at(df, col)])) ELSE <<>>

\* the row loop of budget_pacing.analyze on row k: whether the row is
\* skipped, its line of the pacing table and its findings, in the order
\* the code appends them
budget_pacing_row(name, status, btype, cost, budget, lost_b, report_days) ==
    LET daily_avg   == IF report_days = 0 THEN Float(0)
                       ELSE IF cost = NaN THEN NaN
                       ELSE Float(cost.u \div report_days)
        utilization == IF gt(budget, 0)
                       THEN Some(safe_divide_row(daily_avg, budget))
                       ELSE None
        finding(severity, area, detail) ==
            [severity |-> severity, area |-> area, campaign |-> name,
             detail |-> detail]
    IN  IF cost = Float(0) /\ status # <<"e","n","a","b","l","e","d">>
        THEN [skipped |-> TRUE, findings |-> <<>>]
        ELSE [skipped  |-> FALSE,
              line     |-> [campaign |-> name, daily_avg_spend |-> daily_avg,
                            daily_budget |-> budget,
                            utilization_pct |-> utilization],
              findings |->
                  (IF gt(lost_b, (15 * SCALE) \div 100)
                   THEN <<finding("HIGH", "Budget Cap", <<lost_b, daily_avg, budget>>)>>
                   ELSE IF /\ utilization # None
                           /\ gt(utilization.value, (95 * SCALE) \div 100)
                           /\ gt(budget, 0)
                   THEN <<finding("MEDIUM", "Budget Utilization",
                                  <<utilization.value, daily_avg, budget>>)>>
                   ELSE <<>>)
                  \o (IF /\ utilization # None
                         /\ lt(utilization.value, SCALE \div 5)
                         /\ gt(cost, 10 * SCALE)
                      THEN <<finding("LOW", "Budget Pacing",
                                     <<utilization.value, budget, daily_avg>>)>>
                      ELSE <<>>)
                  \o (IF contains(btype, <<"s","h","a","r","e","d">>)
                      THEN <<finding("LOW", "Shared Budget", <<>>)>>
                      ELSE <<>>)]

\* the result of budget_pacing.analyze from what the loop gave for each row
budget_pacing_result(n, d, report_days, loop) ==
    LET kept == SelectSeq(loop, LAMBDA r : ~r.skipped)
        findings == concat(Tuple([k \in 1..Len(loop) |-> loop[k].findings],
                                 Len(loop)))
    IN  [summary  |-> <<"Analyzed budget pacing", n, report_days,
                        column_sum(d._cost), column_sum(d._budget),
                        Len(findings)>>,
         findings |-> findings,
         pacing_table |-> Tuple([i \in 1..Len(kept) |-> kept[i].line], Len(kept)),
         metrics  |-> [total_spend |-> column_sum(d._cost),
                       total_daily_budget |-> column_sum(d._budget),
                       projected_monthly_spend |->
                           IF report_days > 0
                           THEN (column_sum(d._cost) * 304) \div (report_days * 10)
                           ELSE 0,
                       report_days |-> report_days]]

\* budget_pacing.analyze from the row loop on
budget_pacing_loop(df, name_col, status_col, budget_type, d, report_days) ==
    budget_pacing_result(
        Len(df.rows), d, report_days,
        Tuple([k \in 1..Len(df.rows) |->
                  budget_pacing_row(df.rows[k][column_at(df, name_col)],
                                    lowered_cell(df, status_col, k),
                                    lowered_cell(df, budget_type, k),
                                    row_value(d._cost, k), row_value(d._budget, k),
                                    row_value(d._lost_b, k), report_days)],
              Len(df.rows)))

\* budget_pacing.analyze, from line 23 on
budget_pacing_checks(df, name_col, report_days) ==
    budget_pacing_loop(df, name_col,
                       find_col(df, <<<<"C","a","m","p","a","i","g","n"," ","s","t","a","t","u","s">>, <<"S","t","a","t","u","s">>>>),
                       find_col(df, <<<<"B","u","d","g","e","t"," ","t","y","p","e">>, <<"B","u","d","g","e","t"," ","T","y","p","e">>>>),
                       derive(df, budget_pacing_plan), report_days)

\* budget_pacing.analyze(data_path, report_days)
budget_pacing_analyze(load) ==
    LET loaded == load.data_path
    IN  IF loaded.kind = "raise" THEN loaded
        ELSE
        LET name_col == find_col(loaded.value, <<<<"C","a","m","p","a","i","g","n">>, <<"C","a","m","p","a","i","g","n"," ","n","a","m","e">>>>)
        IN  IF ~has(name_col)
            THEN Return(ErrorResult("Could not find Campaign column in campaigns.csv"))
            ELSE Return(budget_pacing_checks(loaded.value, name_col,
                                             load.report_days))

----------------------------------------------------------------------------
(* agent/tool_executor.py *)

\* the keys of TOOL_MAP
TOOL_MAP == {
    "analyze_campaign_performance", "analyze_budget_pacing", "analyze_keywords",
    "analyze_search_terms", "analyze_ad_creatives", "analyze_ad_group_structure",
    "analyze_bidding_strategies", "analyze_audiences", "analyze_devices",
    "analyze_time_performance", "analyze_extensions",
    "analyze_geographic_performance" }

\* each analyzer's keyword parameters and their defaults
signature(tool_name) ==
    CASE tool_name = "analyze_campaign_performance" ->
            [data_path |-> "data/campaigns.csv"]
      [] tool_name = "analyze_budget_pacing" ->
            [data_path |-> "data/campaigns.csv", report_days |-> 30]
      [] tool_name = "analyze_keywords" ->
            [data_path |-> "data/keywords.csv"]
      [] tool_name = "analyze_search_terms" ->
            [data_path |-> "data/search_terms.csv", keywords_path |-> "data/keywords.csv"]
      [] tool_name = "analyze_ad_creatives" ->
            [data_path |-> "data/ads.csv"]
      [] tool_name = "analyze_ad_group_structure" ->
            [data_path |-> "data/ad_groups.csv", keywords_path |-> "data/keywords.csv"]
      [] tool_name = "analyze_bidding_strategies" ->
            [data_path |-> "data/campaigns.csv"]
      [] tool_name = "analyze_audiences" ->
            [data_path |-> "data/audiences.csv"]
      [] tool_name = "analyze_devices" ->
            [data_path |-> "data/devices.csv"]
      [] tool_name = "analyze_time_performance" ->
            [tod_path |-> "data/time_of_day.csv", dow_path |-> "data/day_of_week.csv"]
      [] tool_name = "analyze_extensions" ->
            [data_path |-> "data/extensions.csv"]
      [] tool_name = "analyze_geographic_performance" ->
            [data_path |-> "data/geographic.csv"]

\* TOOL_MAP[tool_name](**args)
analyze(tool_name, load) ==
    CASE tool_name = "analyze_campaign_performance" -> campaign_performance_analyze(load)
      [] tool_name = "analyze_budget_pacing" -> budget_pacing_analyze(load)
      [] tool_name = "analyze_keywords" -> keyword_analysis_analyze(load)
      [] tool_name = "analyze_search_terms" -> search_term_analysis_analyze(load)
      [] tool_name = "analyze_ad_creatives" -> ad_creative_analysis_analyze(load)
      [] tool_name = "analyze_ad_group_structure" -> ad_group_structure_analyze(load)
      [] tool_name = "analyze_bidding_strategies" -> bidding_strategy_analyze(load)
      [] tool_name = "analyze_audiences" -> audience_analysis_analyze(load)
      [] tool_name = "analyze_devices" -> device_analysis_analyze(load)
      [] tool_name = "analyze_time_performance" -> time_analysis_analyze(load)
      [] tool_name = "analyze_extensions" -> extension_analysis_analyze(load)
      [] tool_name = "analyze_geographic_performance" -> geo_analysis_analyze(load)

\* the parameters that name a file
path_params == {"data_path", "keywords_path", "tod_path", "dow_path"}

\* func(**tool_input): a keyword the function does not take is a TypeError
invoke(tool_name, fs, tool_input) ==
    LET defaults == signature(tool_name)
        args == [p \in DOMAIN defaults |->
                    IF p \in DOMAIN tool_input THEN tool_input[p]
                    ELSE defaults[p]]
    IN  IF ~(DOMAIN tool_input \subseteq DOMAIN defaults)
        THEN Raise("TypeError")
        ELSE analyze(tool_name,
                     [p \in DOMAIN defaults |->
                        IF p \in path_params
                        THEN load_csv(file_at(fs, args[p]))
                        ELSE args[p]])

\* a result whose findings follow those the analyzer's earlier calls left
with_kept_findings(tool_name, result, earlier) ==
    LET kept == SelectSeq(earlier, LAMBDA c :
                    /\ c.fn = tool_name
                    /\ c.outcome.kind = "return"
                    /\ "findings" \in DOMAIN c.outcome.value)
    IN  IF result.kind = "return" /\ "findings" \in DOMAIN result.value
           /\ kept # <<>>
        THEN Return([result.value EXCEPT
                        !.findings = kept[Len(kept)].outcome.value.findings \o @])
        ELSE result

\* an analyzer whose findings list outlives the call
analyzer_call_keeping_findings(tool_name, fs, data_path, earlier) ==
    with_kept_findings(tool_name,
                       invoke(tool_name, fs, [data_path |-> data_path]), earlier)

\* TOOL_MAP[tool_name](data_path=data_path), made after the calls in
\* earlier: the analyzer reads the file again and builds its table, its
\* findings and its metrics in locals, and the module constants are only read
analyzer_call(tool_name, fs, data_path, earlier) ==
    invoke(tool_name, fs, [data_path |-> data_path])

\* json.dumps(value): the JSON text of value
json_dumps(value) == [json |-> value]

\* the handlers of execute without the catch-all: another exception leaves
\* the call
handled_not_found_only(result) ==
    IF result.kind = "return" THEN Return(json_dumps(result.value))
    ELSE IF result.exc = "FileNotFoundError"
    THEN Return(json_dumps([error   |-> "CSV file not found",
                            skipped |-> TRUE]))
    ELSE result

\* execute without the catch-all handler
execute_not_found_only(tool_name, fs, tool_input) ==
    IF tool_name \notin TOOL_MAP
    THEN Return(json_dumps([error |-> "Unknown tool"]))
    ELSE handled_not_found_only(invoke(tool_name, fs, tool_input))

\* the try block of execute around the analyzer's call: its result as JSON,
\* FileNotFoundError and every other Exception as an error object
handled(result) ==
    IF result.kind = "return" THEN Return(json_dumps(result.value))
    ELSE IF result.exc = "FileNotFoundError"
    THEN Return(json_dumps([error   |-> "CSV file not found",
                            skipped |-> TRUE]))
    ELSE Return(json_dumps([error   |-> "Tool failed",
                            skipped |-> TRUE]))

\* execute(tool_name, tool_input)
execute(tool_name, fs, tool_input) ==
    IF tool_name \notin TOOL_MAP
    THEN Return(json_dumps([error |-> "Unknown tool"]))
    ELSE handled(invoke(tool_name, fs, tool_input))

----------------------------------------------------------------------------
(* Bounds and the files the checks run on *)

\* the most columns a generated table has
MaxCols == 3

\* the most candidate names a generated find_col call passes
MaxCands == 2

NoCall == [fn |-> "none"]

\* the sequences of 1..n pairwise distinct members of pool
DistinctSeqs(pool, n) ==
    UNION {{h \in [1..k -> pool] : \A i, j \in 1..k : i # j => h[i] # h[j]}
           : k \in 1..n}

\* the sequences of 1..n members of pool
SeqsUpTo(pool, n) == UNION {[1..k -> pool] : k \in 1..n}

DataLine == <<<<"x">>>>

TotalLine == <<<<"T","o","t","a","l",":"," ","a","c","c","o","u","n","t">>>>

BannerLine == <<<<"P","e","r","f","o","r","m","a","n","c","e"," ","r","e","p","o","r","t">>>>

\* data lines after the header: none; two (both cut as footer); three; a
\* total row that survives the footer cut
Bodies == {<<>>,
           <<DataLine, DataLine>>,
           <<DataLine, DataLine, DataLine>>,
           <<TotalLine, TotalLine, <<>> >>}

\* a readable export: an optional banner, the header, the data lines
Export(banner, header, body, utf8) ==
    [status |-> "ok", utf8 |-> utf8,
     lines  |-> (IF banner THEN <<BannerLine>> ELSE <<>>) \o <<header>> \o body]

\* the first-column and signature headers the classifier is checked on,
\* as exports spell them
ClassifyHeaders == {
    <<"S","e","a","r","c","h"," ","t","e","r","m">>, <<" ","S","E","A","R","C","H"," ","T","E","R","M"," ">>, <<"S","t","a","t","u","s">>, <<"Q","u","a","l","i","t","y"," ","S","c","o","r","e">>,
    <<"A","d"," ","r","e","l","e","v","a","n","c","e">>, <<"D","a","y"," ","o","f"," ","w","e","e","k">>, <<"C","a","m","p","a","i","g","n">>, <<"M","a","t","c","h"," ","t","y","p","e">>,
    <<"B","u","d","g","e","t">>, <<"B","u","d","g","e","t"," ","t","y","p","e">>, <<"E","x","p","."," ","C","T","R">>, <<"K","e","y","w","o","r","d"," ","t","e","x","t">> }

\* headers of three columns, for the files checked with every body
SampleHeaders == {
    <<<<"S","e","a","r","c","h"," ","t","e","r","m">>, <<"C","a","m","p","a","i","g","n">>, <<"B","u","d","g","e","t">>>>,
    <<<<"S","t","a","t","u","s">>, <<"Q","u","a","l","i","t","y"," ","S","c","o","r","e">>, <<"A","d"," ","r","e","l","e","v","a","n","c","e">>>> }

\* every header over three data lines; the sample headers over every body,
\* with and without a banner, in UTF-8 and not; a missing and an
\* unreadable file
ClassifyFiles ==
    {MissingFile, UnreadableFile}
    \cup {Export(FALSE, header, <<DataLine, DataLine, DataLine>>, TRUE) :
            header \in DistinctSeqs(ClassifyHeaders, MaxCols)}
    \cup {Export(banner, header, body, utf8) :
            banner \in BOOLEAN, header \in SampleHeaders,
            body \in Bodies, utf8 \in BOOLEAN}

----------------------------------------------------------------------------
(* The classifier called on an uploaded file *)

InitClassify ==
    /\ files \in [{"upload.csv"} -> ClassifyFiles]
    /\ call = NoCall
    /\ outcome = None

\* classify_csv(path)
Classify(path) ==
    /\ call = NoCall
    /\ call' = [fn |-> "classify_csv", path |-> path]
    /\ outcome' = classify_csv(files[path])
    /\ UNCHANGED files

NextClassify == \E path \in DOMAIN files : Classify(path)

SpecClassify == InitClassify /\ [][NextClassify]_vars

----------------------------------------------------------------------------
(* The column resolver called on a loaded table *)

FindColHeaders == {
    <<"C","a","m","p","a","i","g","n">>, <<"c","a","m","p","a","i","g","n">>, <<"C","a","m","p","a","i","g","n"," ","n","a","m","e">>, <<" ","C","A","M","P","A","I","G","N"," ","N","A","M","E">>,
    <<"C","o","s","t">>, <<"S","p","e","n","d">> }

FindColCandidates == { <<"C","a","m","p","a","i","g","n">>, <<"C","a","m","p","a","i","g","n"," ","n","a","m","e">>, <<"C","o","s","t">>, <<"S","p","e","n","d">> }

InitFindCol ==
    /\ files \in [{"data.csv"} ->
                    {Export(FALSE, header, <<DataLine, DataLine, DataLine>>, TRUE) :
                        header \in DistinctSeqs(FindColHeaders, MaxCols)}]
    /\ call = NoCall
    /\ outcome = None

\* find_col(load_csv(path), *candidates)
FindCol(path, candidates) ==
    /\ call = NoCall
    /\ load_csv(files[path]).kind = "return"
    /\ call' = [fn |-> "find_col", path |-> path, candidates |-> candidates]
    /\ outcome' = Return(find_col(load_csv(files[path]).value, candidates))
    /\ UNCHANGED files

NextFindCol ==
    \E path \in DOMAIN files, candidates \in SeqsUpTo(FindColCandidates, MaxCands) :
        FindCol(path, candidates)

SpecFindCol == InitFindCol /\ [][NextFindCol]_vars

----------------------------------------------------------------------------
(* The dispatcher called on one report file.  Every path other than        *)
(* "input.csv", the analyzers' default paths among them, names no file.    *)

\* the largest number of keys in a tool input
MaxArgs == 2

\* identifying columns, one per analyzer family, and one that none knows
IdColumns == {<<"C","a","m","p","a","i","g","n">>, <<"K","e","y","w","o","r","d">>, <<"S","e","a","r","c","h"," ","t","e","r","m">>, <<"A","d"," ","g","r","o","u","p">>,
              <<"D","e","v","i","c","e">>, <<"A","u","d","i","e","n","c","e">>, <<"E","x","t","e","n","s","i","o","n"," ","t","y","p","e">>, <<"C","i","t","y">>,
              <<"H","o","u","r"," ","o","f"," ","d","a","y">>, <<"D","a","y"," ","o","f"," ","w","e","e","k">>, <<"S","t","a","t","u","s">>}

\* the metric columns, in the order exports list them
MetricColumns == <<<<"C","o","s","t">>, <<"C","o","n","v","e","r","s","i","o","n","s">>, <<"C","l","i","c","k","s">>, <<"I","m","p","r","e","s","s","i","o","n","s">>>>

\* an identifying column followed by any selection of the metric columns
ExecuteHeaders ==
    {<<id>> \o SelectSeq(MetricColumns, LAMBDA m : m \in chosen) :
        id \in IdColumns,
        chosen \in SUBSET {MetricColumns[i] : i \in 1..Len(MetricColumns)}}

\* reports with one data row left after the footer is cut
ExecuteFiles ==
    {Export(FALSE, header, <<DataLine, DataLine, DataLine>>, TRUE) :
        header \in ExecuteHeaders}
    \cup {MissingFile, UnreadableFile}

\* the keys a tool input may hold; "campaign" is a parameter of no analyzer
InputKeys == {"data_path", "keywords_path", "tod_path", "dow_path", "campaign"}

\* tool inputs: up to MaxArgs keys, each naming the report file
ToolInputs ==
    UNION {[keys -> {"input.csv"}] :
              keys \in {k \in SUBSET InputKeys : Cardinality(k) <= MaxArgs}}

ToolNames == TOOL_MAP \cup {"analyze_everything"}

InitExecute ==
    /\ files \in [{"input.csv"} -> ExecuteFiles]
    /\ call = NoCall
    /\ outcome = None

\* execute(tool_name, tool_input)
Execute(tool_name, tool_input) ==
    /\ call = NoCall
    /\ call' = [fn |-> "execute", tool_name |-> tool_name,
                tool_input |-> tool_input]
    /\ outcome' = execute(tool_name, files, tool_input)
    /\ UNCHANGED files

NextExecute ==
    \E tool_name \in ToolNames, tool_input \in ToolInputs :
        Execute(tool_name, tool_input)

SpecExecute == InitExecute /\ [][NextExecute]_vars

----------------------------------------------------------------------------
(* The keyword analyzer called on a keywords report *)

\* the largest number of keyword rows in a report
MaxRows == 2

\* the columns of a full keywords report
KeywordColumns == <<<<"K","e","y","w","o","r","d">>, <<"C","a","m","p","a","i","g","n">>, <<"A","d"," ","g","r","o","u","p">>, <<"M","a","t","c","h"," ","t","y","p","e">>,
                    <<"S","t","a","t","u","s">>, <<"Q","u","a","l","i","t","y"," ","S","c","o","r","e">>, <<"A","d"," ","r","e","l","e","v","a","n","c","e">>,
                    <<"L","a","n","d","i","n","g"," ","p","a","g","e"," ","e","x","p",".">>, <<"C","o","s","t">>, <<"C","o","n","v","e","r","s","i","o","n","s">>,
                    <<"M","a","x"," ","C","P","C">>, <<"F","i","r","s","t"," ","p","a","g","e"," ","C","P","C"," ","e","s","t",".">>>>

\* keyword rows, as a full report spells them
KeywordRows == {
    <<<<"s","h","o","e","s">>, <<"A">>, <<"G","1">>, <<"B","r","o","a","d"," ","m","a","t","c","h">>, <<"E","n","a","b","l","e","d">>, <<"2">>,
      <<"B","e","l","o","w"," ","a","v","e","r","a","g","e">>, <<"A","v","e","r","a","g","e">>, <<"6","0">>, <<"0">>, <<"1">>, <<"2">>>>,
    <<<<"S","h","o","e","s"," ">>, <<"A">>, <<"G","2">>, <<"E","x","a","c","t"," ","m","a","t","c","h">>, <<"P","a","u","s","e","d">>, <<"8">>,
      <<"A","b","o","v","e"," ","a","v","e","r","a","g","e">>, <<"B","e","l","o","w"," ","a","v","e","r","a","g","e">>, <<"$","1","5">>, <<"3">>, <<"2">>, <<"2">>>>,
    <<<<"b","o","o","t","s">>, <<"B">>, <<"G","1">>, <<"B","r","o","a","d"," ","m","a","t","c","h">>, <<"E","n","a","b","l","e","d">>, <<"-","-">>,
      <<"-","-">>, <<"-","-">>, <<"2","5">>, <<>>, <<>>, <<"3">>>>,
    <<<<"h","a","t","s">>, <<"B">>, <<"G","2">>, <<"P","h","r","a","s","e"," ","m","a","t","c","h">>, <<"R","e","m","o","v","e","d">>, <<"3">>,
      <<"B","e","l","o","w"," ","a","v","e","r","a","g","e">>, <<"B","e","l","o","w"," ","a","v","e","r","a","g","e">>, <<"4","0">>, <<"1">>, <<"4">>, <<"1">>>>,
    <<<<"b","o","o","t","s">>, <<"B">>, <<"G","3">>, <<"E","x","a","c","t"," ","m","a","t","c","h">>, <<"E","n","a","b","l","e","d">>, <<"1">>,
      <<"A","v","e","r","a","g","e">>, <<"A","v","e","r","a","g","e">>, <<"1","2","0">>, <<"0">>, <<"$","2">>, <<"5">>>> }

\* the columns a report holds, by position in KeywordColumns: the full
\* report, Quality Score first, reports lacking optional columns, one
\* without Quality Score and one without the keyword
KeywordLayouts == {
    <<1, 2, 3, 4, 5, 6, 7, 8, 9, 10, 11, 12>>,
    <<6, 1, 2, 3, 9, 10>>,
    <<1, 6, 9>>,
    <<1, 4, 5, 6, 9, 10>>,
    <<1, 6, 7, 8, 9, 11, 12>>,
    <<1, 6>>,
    <<1, 9, 10>>,
    <<2, 6, 9>> }

\* the fields of a line that a layout keeps
Project(line, layout) ==
    Tuple([i \in 1..Len(layout) |-> line[layout[i]]], Len(layout))

\* a keywords report: the header, the rows and the two-line footer
KeywordFiles ==
    {Export(FALSE, Project(KeywordColumns, layout),
            Tuple([k \in 1..Len(rows) |-> Project(rows[k], layout)], Len(rows))
                \o <<TotalLine, TotalLine>>,
            TRUE) :
        layout \in KeywordLayouts, rows \in SeqsUpTo(KeywordRows, MaxRows)}

\* keyword, cost and conversions of rows around the wasted-spend threshold
SpendRows == {<<<<"s","h","o","e","s">>, <<"1","0","0">>, <<"0">>>>,
              <<<<"b","o","o","t","s">>, <<"2","5">>, <<"0">>>>,
              <<<<"h","a","t","s">>, <<"1","5">>, <<"7">>>>,
              <<<<"s","o","c","k","s">>, <<"4","5">>, <<>>>>,
              <<<<"b","e","l","t","s">>, <<"$","6","0">>, <<"-","-">>>>}

\* the columns of a spend report, with and without conversions
SpendHeaders == {<<<<"K","e","y","w","o","r","d">>, <<"C","o","s","t">>, <<"C","o","n","v","e","r","s","i","o","n","s">>>>,
                 <<<<"K","e","y","w","o","r","d">>, <<"C","o","s","t">>>>}

\* spend reports of up to MaxRows + 1 rows
SpendFiles ==
    {Export(FALSE, header,
            Tuple([k \in 1..Len(rows) |-> SubSeq(rows[k], 1, Len(header))],
                  Len(rows)) \o <<TotalLine, TotalLine>>,
            TRUE) :
        header \in SpendHeaders, rows \in SeqsUpTo(SpendRows, MaxRows + 1)}

InitKeywords ==
    /\ files \in [{"keywords.csv"} -> KeywordFiles \cup SpendFiles]
    /\ call = NoCall
    /\ outcome = None

\* keyword_analysis.analyze(data_path)
AnalyzeKeywords(data_path) ==
    /\ call = NoCall
    /\ call' = [fn |-> "analyze_keywords", data_path |-> data_path]
    /\ outcome' = keyword_analysis_analyze(
                      [data_path |-> load_csv(file_at(files, data_path))])
    /\ UNCHANGED files

NextKeywords == \E data_path \in DOMAIN files : AnalyzeKeywords(data_path)

SpecKeywords == InitKeywords /\ [][NextKeywords]_vars

----------------------------------------------------------------------------
(* The campaign analyzers called on a campaigns report *)

\* the columns of a full campaigns report
CampaignColumns == <<<<"C","a","m","p","a","i","g","n">>, <<"C","a","m","p","a","i","g","n"," ","s","t","a","t","u","s">>, <<"C","o","s","t">>, <<"B","u","d","g","e","t">>,
                     <<"C","o","n","v","e","r","s","i","o","n","s">>, <<"I","m","p","r","e","s","s","i","o","n","s">>, <<"C","T","R">>, <<"C","o","n","v","."," ","r","a","t","e">>,
                     <<"C","o","n","v","."," ","v","a","l","u","e">>, <<"C","o","s","t"," ","/"," ","c","o","n","v",".">>,
                     <<"S","e","a","r","c","h"," ","l","o","s","t"," ","I","S"," ","(","b","u","d","g","e","t",")">>, <<"S","e","a","r","c","h"," ","l","o","s","t"," ","I","S"," ","(","r","a","n","k",")">>>>

\* campaign rows, as a full report spells them: an enabled campaign that
\* spent without being shown, a campaign losing impressions and money, a
\* paused campaign without figures, a campaign with a high CPA, a campaign
\* shown and never clicked
CampaignRows == {
    <<<<"V","i","d","e","o">>, <<"E","n","a","b","l","e","d">>, <<"1","5","0">>, <<"1","0","0">>, <<"0">>, <<"2","0","0","0">>, <<"0","%">>, <<"0","%">>,
      <<"0">>, <<"0">>, <<"0","%">>, <<"0","%">>>>,
    <<<<"B","r","a","n","d">>, <<"E","n","a","b","l","e","d">>, <<"5","0","0">>, <<"1","0">>, <<"0">>, <<"0">>, <<"-","-">>, <<"0","%">>,
      <<"0">>, <<"0">>, <<"0","%">>, <<"0","%">>>>,
    <<<<"S","e","a","r","c","h">>, <<"E","n","a","b","l","e","d">>, <<"2","0","0">>, <<"5","0">>, <<"1","0">>, <<"5","0","0","0">>, <<"0",".","4","%">>,
      <<"2","%">>, <<"1","0","0">>, <<"2","0">>, <<"1","5","%">>, <<"3","0","%">>>>,
    <<<<"D","i","s","p","l","a","y">>, <<"P","a","u","s","e","d">>, <<"0">>, <<"2","0">>, <<"0">>, <<"0">>, <<"-","-">>, <<"-","-">>,
      <<>>, <<>>, <<"-","-">>, <<"-","-">>>>,
    <<<<"S","h","o","p","p","i","n","g">>, <<"E","n","a","b","l","e","d">>, <<"$","9","0">>, <<"5">>, <<"1">>, <<>>, <<"1",".","5","%">>, <<"-","-">>,
      <<"4","0">>, <<"9","0">>, <<"<"," ","1","0","%">>, <<">"," ","9","0","%">>>> }

\* the columns a report holds, by position in CampaignColumns: name, status,
\* cost, budget, conversions and impressions; the full report; reports
\* lacking the status, the impressions or the campaign
CampaignLayouts == {
    <<1, 2, 3, 4, 5, 6>>,
    <<1, 2, 3, 4, 5, 6, 7, 8, 9, 10, 11, 12>>,
    <<1, 3, 4, 5, 6, 8>>,
    <<1, 2, 3, 5, 10>>,
    <<1, 2, 6>>,
    <<2, 3, 6>> }

\* a campaigns report: the header, the rows and the two-line footer
CampaignFiles ==
    {Export(FALSE, Project(CampaignColumns, layout),
            Tuple([k \in 1..Len(rows) |-> Project(rows[k], layout)], Len(rows))
                \o <<TotalLine, TotalLine>>,
            TRUE) :
        layout \in CampaignLayouts, rows \in SeqsUpTo(CampaignRows, MaxRows)}

InitCampaigns ==
    /\ files \in [{"campaigns.csv"} -> CampaignFiles]
    /\ call = NoCall
    /\ outcome = None

\* campaign_performance.analyze(data_path)
AnalyzeCampaigns(data_path) ==
    /\ call = NoCall
    /\ call' = [fn |-> "analyze_campaign_performance", data_path |-> data_path]
    /\ outcome' = campaign_performance_analyze(
                      [data_path |-> load_csv(file_at(files, data_path))])
    /\ UNCHANGED files

\* bidding_strategy.analyze(data_path)
AnalyzeBidding(data_path) ==
    /\ call = NoCall
    /\ call' = [fn |-> "analyze_bidding_strategies", data_path |-> data_path]
    /\ outcome' = bidding_strategy_analyze(
                      [data_path |-> load_csv(file_at(files, data_path))])
    /\ UNCHANGED files

NextCampaigns ==
    \E data_path \in DOMAIN files :
        \/ AnalyzeCampaigns(data_path)
        \/ AnalyzeBidding(data_path)

SpecCampaigns == InitCampaigns /\ [][NextCampaigns]_vars

----------------------------------------------------------------------------
(* Analyzers called one after another on unchanged files *)

\* the largest number of calls in a row
MaxCalls == 3

\* the analyzers called
RepeatedTools == {"analyze_campaign_performance", "analyze_bidding_strategies",
                  "analyze_keywords"}

\* campaigns and spend reports of one row
RepeatFiles ==
    {f \in CampaignFiles \cup SpendFiles : Len(f.lines) = 4}

\* the calls made so far with what they gave, the current one included
CallsMade ==
    IF call = NoCall THEN <<>>
    ELSE Append(call.earlier, [fn |-> call.fn, data_path |-> call.data_path,
                               outcome |-> outcome])

InitRepeat ==
    /\ files \in [{"report.csv"} -> RepeatFiles]
    /\ call = NoCall
    /\ outcome = None

\* one more call of an analyzer, the files left as they are
AnalyzeAgain(tool_name, data_path) ==
    /\ Len(CallsMade) < MaxCalls
    /\ call' = [fn |-> tool_name, data_path |-> data_path,
                earlier |-> CallsMade]
    /\ outcome' = analyzer_call(tool_name, files, data_path, CallsMade)
    /\ UNCHANGED files

NextRepeat ==
    \E tool_name \in RepeatedTools, data_path \in {"report.csv", "missing.csv"} :
        AnalyzeAgain(tool_name, data_path)

SpecRepeat == InitRepeat /\ [][NextRepeat]_vars

----------------------------------------------------------------------------
(* The device, time and location analyzers called on a report *)

\* the columns of a devices report
DeviceColumns == <<<<"D","e","v","i","c","e">>, <<"C","o","s","t">>, <<"C","o","n","v","e","r","s","i","o","n","s">>, <<"I","m","p","r","e","s","s","i","o","n","s">>,
                   <<"C","l","i","c","k","s">>, <<"B","i","d"," ","a","d","j","u","s","t","m","e","n","t">>>>

\* device rows: few costly conversions out of few clicks, many cheap
\* conversions, few conversions out of many clicks, conversions without
\* clicks, spend without conversions
DeviceRows == {
    <<<<"O","t","h","e","r">>, <<"8","0">>, <<"0">>, <<"2","0","0">>, <<"2","0">>, <<"0","%">>>>,
    <<<<"M","o","b","i","l","e"," ","p","h","o","n","e","s">>, <<"3","0","0">>, <<"3">>, <<"1","0","0","0">>, <<"1","0">>, <<"0","%">>>>,
    <<<<"D","e","s","k","t","o","p">>, <<"1","0","0">>, <<"1","7">>, <<"2","0","0","0">>, <<"1","9","0">>, <<"1","0","%">>>>,
    <<<<"T","a","b","l","e","t","s">>, <<"2","0","0">>, <<"2">>, <<"5","0","0">>, <<"4","0","0">>, <<"0","%">>>>,
    <<<<"T","V"," ","s","c","r","e","e","n","s">>, <<"1","2","0">>, <<"1">>, <<"3","0","0">>, <<"0">>, <<"-","2","0","%">>>> }

\* the full report, one without bid adjustments, one without figures
DeviceLayouts == {<<1, 2, 3, 4, 5, 6>>, <<1, 2, 3, 4, 5>>, <<1, 5>>}

\* the columns of a locations report
GeoColumns == <<<<"C","i","t","y">>, <<"C","o","s","t">>, <<"C","o","n","v","e","r","s","i","o","n","s">>, <<"C","l","i","c","k","s">>, <<"C","o","n","v","."," ","r","a","t","e">>>>

GeoRows == {
    <<<<"L","e","e","d","s">>, <<"4","0">>, <<"1","0">>, <<"1","0">>, <<"1","0","0","%">>>>,
    <<<<"Y","o","r","k">>, <<"1","0">>, <<"0">>, <<"9","9","0">>, <<"0","%">>>>,
    <<<<"B","a","t","h">>, <<"1","0","0">>, <<"5">>, <<"1","0","0">>, <<"5","%">>>>,
    <<<<"H","u","l","l">>, <<"6","0">>, <<"1">>, <<"5","0">>, <<"2","%">>>> }

\* with clicks, with clicks and rates, without clicks, without conversions
GeoLayouts == {<<1, 2, 3, 4>>, <<1, 2, 3, 4, 5>>, <<1, 2, 3>>, <<1, 2>>}

\* the columns of an hours and of a days report, after the slot column
SlotColumns == <<<<"C","o","s","t">>, <<"C","o","n","v","e","r","s","i","o","n","s">>, <<"C","l","i","c","k","s">>>>

HourRows == {
    <<<<"9">>, <<"5","0">>, <<"5">>, <<"1","0","0">>>>,
    <<<<"1","3">>, <<"3","0">>, <<"0">>, <<"5","0">>>>,
    <<<<"2","2">>, <<"2","0">>, <<"1">>, <<"2">>>> }

DayRows == {
    <<<<"M","o","n","d","a","y">>, <<"5","0">>, <<"5">>, <<"1","0","0">>>>,
    <<<<"S","u","n","d","a","y">>, <<"3","0">>, <<"0">>, <<"5","0">>>>,
    <<<<"F","r","i","d","a","y">>, <<"1","0">>, <<"1">>, <<"1">>>> }

\* the full report and one without clicks
SlotLayouts == {<<1, 2, 3, 4>>, <<1, 2, 3>>}

\* the reports of up to MaxRows rows over the columns, the layouts and the
\* rows, each with the two-line footer
Reports(columns, layouts, pool) ==
    {Export(FALSE, Project(columns, layout),
            Tuple([k \in 1..Len(rows) |-> Project(rows[k], layout)], Len(rows))
                \o <<TotalLine, TotalLine>>,
            TRUE) :
        layout \in layouts, rows \in SeqsUpTo(pool, MaxRows)}

BidFiles ==
    Reports(DeviceColumns, DeviceLayouts, DeviceRows)
    \cup Reports(GeoColumns, GeoLayouts, GeoRows)
    \cup Reports(<<<<"H","o","u","r"," ","o","f"," ","d","a","y">>>> \o SlotColumns, SlotLayouts, HourRows)
    \cup Reports(<<<<"D","a","y"," ","o","f"," ","w","e","e","k">>>> \o SlotColumns, SlotLayouts, DayRows)

BidPaths == {"report.csv", "missing.csv"}

InitBids ==
    /\ files \in [{"report.csv"} -> BidFiles]
    /\ call = NoCall
    /\ outcome = None

\* device_analysis.analyze(data_path)
AnalyzeDevices(data_path) ==
    /\ call = NoCall
    /\ call' = [fn |-> "analyze_devices", data_path |-> data_path]
    /\ outcome' = device_analysis_analyze(
                      [data_path |-> load_csv(file_at(files, data_path))])
    /\ UNCHANGED files

\* geo_analysis.analyze(data_path)
AnalyzeGeo(data_path) ==
    /\ call = NoCall
    /\ call' = [fn |-> "analyze_geographic_performance", data_path |-> data_path]
    /\ outcome' = geo_analysis_analyze(
                      [data_path |-> load_csv(file_at(files, data_path))])
    /\ UNCHANGED files

\* time_analysis.analyze(tod_path, dow_path)
AnalyzeTime(tod_path, dow_path) ==
    /\ call = NoCall
    /\ call' = [fn |-> "analyze_time_performance", tod_path |-> tod_path,
                dow_path |-> dow_path]
    /\ outcome' = time_analysis_analyze(
                      [tod_path |-> load_csv(file_at(files, tod_path)),
                       dow_path |-> load_csv(file_at(files, dow_path))])
    /\ UNCHANGED files

NextBids ==
    \/ \E data_path \in BidPaths : AnalyzeDevices(data_path)
    \/ \E data_path \in BidPaths : AnalyzeGeo(data_path)
    \/ \E tod_path \in BidPaths, dow_path \in BidPaths :
          AnalyzeTime(tod_path, dow_path)

SpecBids == InitBids /\ [][NextBids]_vars

----------------------------------------------------------------------------
(* The loader called on an export *)

\* the largest number of data rows between the header and the footer
MaxData == 5

\* the largest number of lines after the header of a ragged export
MaxBody == 4

\* the two title lines above the header
Banners == <<BannerLine, <<<<"A","l","l"," ","t","i","m","e">>>>>>

\* headers of at least 3 columns; exports pad some names with spaces
LoadHeaders == {<<<<"C","a","m","p","a","i","g","n">>, <<"C","o","s","t">>, <<"C","l","i","c","k","s">>>>,
                <<<<" ","K","e","y","w","o","r","d"," ">>, <<"M","a","t","c","h"," ","t","y","p","e">>, <<"C","o","s","t"," ">>, <<"C","o","n","v",".">>>>}

\* data rows: text and numbers, a missing field, a short row
LoadRows == {<<<<"B","r","a","n","d">>, <<"1","2">>, <<"3">>>>,
             <<<<"7">>, <<>>, <<"4","0">>>>,
             <<<<"G","e","n","e","r","i","c">>, <<"$","5">>>>}

\* the summary row exports end with
TotalRow == <<<<"T","o","t","a","l",":"," ","A","c","c","o","u","n","t">>, <<"5","7">>, <<"4","3">>>>

\* title lines, the header, the data rows, the Total row and a blank line
BannerExports ==
    {[status |-> "ok", utf8 |-> TRUE,
      lines  |-> Banners \o <<header>> \o rows \o <<TotalRow, <<>> >>] :
        header \in LoadHeaders, rows \in SeqsUpTo(LoadRows, MaxData)}

\* lines found after the header of a ragged export: data, a blank line, a
\* row of empty fields, summary rows in two spellings, a name beginning
\* with "Total"
RaggedLines == {<<<<"B","r","a","n","d">>, <<"1","2">>, <<"3">>>>,
                <<>>,
                <<<<>>, <<>>, <<>>>>,
                TotalRow,
                <<<<"T","O","T","A","L">>, <<"1">>>>,
                <<<<"T","o","t","a","l","l","y">>, <<"2">>, <<"2">>>>}

\* exports with any lines after the header, in either encoding
RaggedExports ==
    {Export(banner, header, body, utf8) :
        banner \in BOOLEAN, header \in LoadHeaders,
        body \in SeqsUpTo(RaggedLines, MaxBody), utf8 \in BOOLEAN}

LoadFiles == BannerExports \cup RaggedExports \cup {MissingFile, UnreadableFile}

InitLoad ==
    /\ files \in [{"export.csv"} -> LoadFiles]
    /\ call = NoCall
    /\ outcome = None

\* load_csv(path)
Load(path) ==
    /\ call = NoCall
    /\ call' = [fn |-> "load_csv", path |-> path]
    /\ outcome' = load_csv(file_at(files, path))
    /\ UNCHANGED files

NextLoad == \E path \in DOMAIN files : Load(path)

SpecLoad == InitLoad /\ [][NextLoad]_vars

----------------------------------------------------------------------------
(* The cleaners called on one cell *)

\* the longest text drawn over the whole alphabet
MaxText == 3

\* characters of amounts, rates and placeholders, and one letter
CleanAlphabet == {"0", "1", "5", ".", "%", "<", ">", " ", "-", "$", ",", "x"}

\* texts as the reports spell rates and amounts
ReportTexts == {<<"2","3",".","4","%">>, <<"<"," ","1","0","%">>, <<"<","1","0","%">>, <<">"," ","9","0","%">>, <<">","9","0","%">>,
                <<"$","1",",","2","5","0">>, <<"1",",","2","5","0">>, <<" ","-","-"," ">>}

\* the cells a cleaner is given: missing, int, float and text
CleanInputs ==
    {NaN}
    \cup {Num(n) : n \in {0, 1, 2, 50, 100}}
    \cup {Float(u) : u \in {0, 500, 999, 1000, 1001, 1500, 23400}}
    \cup {Text(t) : t \in SeqsUpTo(CleanAlphabet, MaxText) \cup ReportTexts}

InitClean ==
    /\ files = <<>>
    /\ call = NoCall
    /\ outcome = None

\* clean_percentage(val)
CleanPercentage(val) ==
    /\ call = NoCall
    /\ call' = [fn |-> "clean_percentage", val |-> val]
    /\ outcome' = clean_percentage(val)
    /\ UNCHANGED files

\* clean_currency(val)
CleanCurrency(val) ==
    /\ call = NoCall
    /\ call' = [fn |-> "clean_currency", val |-> val]
    /\ outcome' = clean_currency(val)
    /\ UNCHANGED files

\* clean_number(val)
CleanNumber(val) ==
    /\ call = NoCall
    /\ call' = [fn |-> "clean_number", val |-> val]
    /\ outcome' = clean_number(val)
    /\ UNCHANGED files

NextClean ==
    \E val \in CleanInputs :
        \/ CleanPercentage(val)
        \/ CleanCurrency(val)
        \/ CleanNumber(val)

SpecClean == InitClean /\ [][NextClean]_vars

----------------------------------------------------------------------------
(* Properties of the classifier *)

\* the table classify_csv works on, when the file loads
Loads(path) == load_csv(files[path]).kind = "return"

TableOf(path) == load_csv(files[path]).value

\* its headers, case-folded and trimmed
HeadersOf(path) ==
    Tuple([j \in 1..Len(TableOf(path).columns) |->
             strip(lower(TableOf(path).columns[j]))], Len(TableOf(path).columns))

\* a table the classifier does not give up on
Classifiable(path) ==
    /\ Loads(path)
    /\ Len(TableOf(path).rows) > 0
    /\ Len(TableOf(path).columns) >= 2

\* the Stage-1 pairs a first column matches
Stage1Hits(first) ==
    {i \in 1..Len(_FIRST_COL_MAP) :
        \/ first = _FIRST_COL_MAP[i][1]
        \/ startswith(first, _FIRST_COL_MAP[i][1] \o <<" ">>)}

RECURSIVE WeightSum(_, _)
WeightSum(sig, S) ==
    IF S = {} THEN 0
    ELSE LET i == CHOOSE i \in S : TRUE
         IN  sig[i][2] + WeightSum(sig, S \ {i})

\* the weight of the fragments of type t found in some header, each once
ScoreOf(t, headers) ==
    WeightSum(_SIGNATURES[t].sig,
              {i \in 1..Len(_SIGNATURES[t].sig) :
                  \E c \in 1..Len(headers) :
                      contains(headers[c], _SIGNATURES[t].sig[i][1])})

TypeIndex(type_key) ==
    CHOOSE t \in 1..Len(_SIGNATURES) : _SIGNATURES[t].type_key = type_key

\* the types no other type outscores
TopTypes(headers) ==
    {t \in 1..Len(_SIGNATURES) :
        \A u \in 1..Len(_SIGNATURES) : ScoreOf(u, headers) <= ScoreOf(t, headers)}

Classified(path) == call = [fn |-> "classify_csv", path |-> path]

\* C6: classify_csv never raises, and a file that does not load, a table
\* of fewer than 2 columns and a table without data rows are all answered
\* with None ("unknown").
C6_ClassifyNeverRaises ==
    \A path \in DOMAIN files :
        Classified(path) =>
            /\ outcome.kind = "return"
            /\ (~Loads(path)
                \/ Len(TableOf(path).columns) < 2
                \/ Len(TableOf(path).rows) = 0) => outcome.value = None

C6_Witness ==
    /\ Classified("upload.csv")
    /\ files["upload.csv"].status = "missing"
    /\ outcome = Return(None)

\* C7: a loaded table with data rows whose first header, case-folded and
\* trimmed, is "search term" is classified search_terms, whatever its
\* other columns score.
C7_SearchTermFirstColumn ==
    \A path \in DOMAIN files :
        (/\ Classified(path)
         /\ Classifiable(path)
         /\ HeadersOf(path)[1] = <<"s","e","a","r","c","h"," ","t","e","r","m">>)
        => outcome = Return(Some("search_terms"))

C7_Witness ==
    /\ Classified("upload.csv")
    /\ Classifiable("upload.csv")
    /\ TableOf("upload.csv").columns =
           <<<<"S","E","A","R","C","H"," ","T","E","R","M">>, <<"Q","u","a","l","i","t","y"," ","S","c","o","r","e">>, <<"A","d"," ","r","e","l","e","v","a","n","c","e">>>>
    /\ ScoreOf(TypeIndex("keywords"), HeadersOf("upload.csv"))
           > ScoreOf(TypeIndex("search_terms"), HeadersOf("upload.csv"))
    /\ outcome = Return(Some("search_terms"))

\* a table Stage 1 passes on that has Quality Score and Ad relevance columns
AmbiguousKeywords(path) ==
    /\ Classified(path)
    /\ Classifiable(path)
    /\ Stage1Hits(HeadersOf(path)[1]) = {}
    /\ \E c \in 1..Len(HeadersOf(path)) : HeadersOf(path)[c] = <<"q","u","a","l","i","t","y"," ","s","c","o","r","e">>
    /\ \E c \in 1..Len(HeadersOf(path)) : HeadersOf(path)[c] = <<"a","d"," ","r","e","l","e","v","a","n","c","e">>

\* C8 as stated: every such table is classified keywords.
C8_AlwaysKeywords ==
    \A path \in DOMAIN files :
        AmbiguousKeywords(path) => outcome = Return(Some("keywords"))

\* C8, amended: such a table scores at least 18 for keywords, and is
\* classified keywords exactly when campaigns scores less than keywords
\* and no other type scores more.
C8_KeywordsUnlessOutscored ==
    \A path \in DOMAIN files :
        AmbiguousKeywords(path) =>
            LET h  == HeadersOf(path)
                kw == TypeIndex("keywords")
            IN  /\ ScoreOf(kw, h) >= 18
                /\ outcome = Return(Some("keywords"))
                   <=> /\ \A u \in 1..Len(_SIGNATURES) : ScoreOf(u, h) <= ScoreOf(kw, h)
                       /\ \A u \in 1..(kw - 1) : ScoreOf(u, h) < ScoreOf(kw, h)

C8_Witness ==
    /\ AmbiguousKeywords("upload.csv")
    /\ \E c \in 1..Len(HeadersOf("upload.csv")) :
           HeadersOf("upload.csv")[c] = <<"d","a","y"," ","o","f"," ","w","e","e","k">>
    /\ outcome = Return(Some("day_of_week"))

\* C9: when Stage 1 matches the first column its type is the answer;
\* otherwise the answer is the first type, in the order of the signature
\* table, among those with the highest score, where a type's score adds
\* the weight of each of its fragments found in some header once, and it
\* is given only if that score is at least 5, None otherwise.
C9_SignatureScoring ==
    \A path \in DOMAIN files :
        (Classified(path) /\ Classifiable(path)) =>
            LET h    == HeadersOf(path)
                hits == Stage1Hits(h[1])
                best == SetMin(TopTypes(h))
            IN  IF hits # {}
                THEN outcome = Return(Some(_FIRST_COL_MAP[SetMin(hits)][2]))
                ELSE IF ScoreOf(best, h) >= 5
                THEN outcome = Return(Some(_SIGNATURES[best].type_key))
                ELSE outcome = Return(None)

C9_Witness ==
    /\ Classified("upload.csv")
    /\ Classifiable("upload.csv")
    /\ Stage1Hits(HeadersOf("upload.csv")[1]) = {}
    /\ Cardinality(TopTypes(HeadersOf("upload.csv"))) = 2
    /\ ScoreOf(SetMin(TopTypes(HeadersOf("upload.csv"))), HeadersOf("upload.csv")) >= 5
    /\ outcome = Return(Some("campaigns"))

----------------------------------------------------------------------------
(* Properties of the column resolver *)

\* C10: find_col returns the table's own name of a column that equals,
\* case-insensitively, the first candidate in the order given that equals
\* any column so, and None when no candidate does; with Campaign and
\* Campaign name both present, find_col(df, "Campaign", "Campaign name")
\* returns the Campaign column.
C10_FindColFirstCandidate ==
    call.fn = "find_col" =>
        LET columns    == TableOf(call.path).columns
            candidates == call.candidates
            matching   == {i \in 1..Len(candidates) :
                              \E j \in 1..Len(columns) :
                                  lower(columns[j]) = lower(candidates[i])}
        IN  /\ matching = {} => outcome = Return(None)
            /\ matching # {} =>
                  /\ outcome.kind = "return"
                  /\ outcome.value.kind = "some"
                  /\ \E j \in 1..Len(columns) : columns[j] = outcome.value.value
                  /\ lower(outcome.value.value)
                        = lower(candidates[SetMin(matching)])
            /\ (/\ candidates = <<<<"C","a","m","p","a","i","g","n">>, <<"C","a","m","p","a","i","g","n"," ","n","a","m","e">>>>
                /\ \E j \in 1..Len(columns) : lower(columns[j]) = <<"c","a","m","p","a","i","g","n">>
                /\ \E j \in 1..Len(columns) : lower(columns[j]) = <<"c","a","m","p","a","i","g","n"," ","n","a","m","e">>)
               => lower(outcome.value.value) = <<"c","a","m","p","a","i","g","n">>

C10_Witness ==
    /\ call.fn = "find_col"
    /\ call.candidates = <<<<"C","a","m","p","a","i","g","n">>, <<"C","a","m","p","a","i","g","n"," ","n","a","m","e">>>>
    /\ TableOf(call.path).columns = <<<<"C","A","M","P","A","I","G","N"," ","N","A","M","E">>, <<"C","a","m","p","a","i","g","n">>>>
    /\ outcome = Return(Some(<<"C","a","m","p","a","i","g","n">>))

----------------------------------------------------------------------------
(* Properties of the dispatcher and the analyzers *)

\* a call of a tool the dispatcher knows is over
Executed == call.fn = "execute" /\ call.tool_name \in TOOL_MAP

\* what the analyzer itself did in the call that is over
Analyzer == invoke(call.tool_name, files, call.tool_input)

\* the keyword arguments are ones the analyzer takes
Bound == DOMAIN call.tool_input \subseteq DOMAIN signature(call.tool_name)

\* the path the call gives parameter p
PathOf(p) ==
    IF p \in DOMAIN call.tool_input THEN call.tool_input[p]
    ELSE signature(call.tool_name)[p]

\* the parameters naming the tables where the analyzer looks for its
\* identifying columns
PrimaryParams ==
    IF call.tool_name = "analyze_time_performance"
    THEN {"tod_path", "dow_path"} ELSE {"data_path"}

\* the aliases of the identifying column looked up in the table at p
Mandatory(p) ==
    CASE call.tool_name \in {"analyze_campaign_performance",
                              "analyze_budget_pacing",
                              "analyze_bidding_strategies"}
            -> {<<"c","a","m","p","a","i","g","n">>, <<"c","a","m","p","a","i","g","n"," ","n","a","m","e">>}
      [] call.tool_name = "analyze_keywords" -> {<<"k","e","y","w","o","r","d">>, <<"k","e","y","w","o","r","d"," ","t","e","x","t">>}
      [] call.tool_name = "analyze_search_terms" -> {<<"s","e","a","r","c","h"," ","t","e","r","m">>}
      [] call.tool_name \in {"analyze_ad_creatives", "analyze_ad_group_structure"}
            -> {<<"a","d"," ","g","r","o","u","p">>}
      [] call.tool_name = "analyze_audiences"
            -> {<<"a","u","d","i","e","n","c","e"," ","s","e","g","m","e","n","t">>, <<"a","u","d","i","e","n","c","e">>, <<"a","u","d","i","e","n","c","e"," ","n","a","m","e">>}
      [] call.tool_name = "analyze_devices" -> {<<"d","e","v","i","c","e">>}
      [] call.tool_name = "analyze_extensions" -> {<<"e","x","t","e","n","s","i","o","n"," ","t","y","p","e">>, <<"t","y","p","e">>}
      [] call.tool_name = "analyze_geographic_performance"
            -> {<<"c","i","t","y">>, <<"r","e","g","i","o","n">>, <<"s","t","a","t","e">>, <<"c","o","u","n","t","r","y","/","t","e","r","r","i","t","o","r","y">>,
                <<"c","o","u","n","t","r","y">>, <<"c","o","u","n","t","r","y"," ","t","e","r","r","i","t","o","r","y">>}
      [] call.tool_name = "analyze_time_performance" /\ p = "tod_path"
            -> {<<"h","o","u","r"," ","o","f"," ","d","a","y">>, <<"h","o","u","r">>}
      [] call.tool_name = "analyze_time_performance" /\ p = "dow_path"
            -> {<<"d","a","y"," ","o","f"," ","w","e","e","k">>, <<"d","a","y">>}

\* the table at p loads
LoadsAt(p) == load_csv(file_at(files, PathOf(p))).kind = "return"

\* the table at p has one of the names
HasAny(p, names) ==
    \E j \in 1..Len(load_csv(file_at(files, PathOf(p))).value.columns) :
        lower(load_csv(file_at(files, PathOf(p))).value.columns[j]) \in names

\* the JSON object the call returned
Reply == outcome.value.json

\* C1: execute never propagates an exception: for every known tool and
\* every input it returns a JSON text, and whenever the analyzer raised
\* (missing or unreadable file, a failing computation, a keyword argument
\* it does not take) the text carries "error" and "skipped": true.  An
\* unknown tool is answered with an error as well.
C1_ExecuteNeverRaises ==
    call.fn = "execute" =>
        /\ outcome.kind = "return"
        /\ (Executed /\ Analyzer.kind = "raise") =>
              /\ "error" \in DOMAIN Reply
              /\ "skipped" \in DOMAIN Reply
              /\ Reply.skipped = TRUE

\* the device analyzer's KeyError comes back as a skipped error
C1_Witness ==
    /\ Executed
    /\ call.tool_name = "analyze_devices"
    /\ Analyzer = Raise("KeyError")
    /\ outcome.kind = "return"
    /\ Reply.skipped = TRUE

\* C2: load_csv on a path that does not exist fails with FileNotFoundError,
\* not with the error of a file no encoding can read, and execute answers
\* a missing report with its "CSV file not found" branch.
C2_MissingFileNotFound ==
    (/\ Executed
     /\ Bound
     /\ \E p \in PrimaryParams : PathOf(p) = "input.csv"
     /\ files["input.csv"] = MissingFile)
        => /\ load_csv(MissingFile) = Raise("FileNotFoundError")
           /\ load_csv(MissingFile) # load_csv(UnreadableFile)
           /\ Reply.error = "CSV file not found"

\* C3: when every table an analyzer looks its identifying column up in
\* loads and one of them has the column under none of its aliases, the
\* analyzer returns a mapping with an "error" key: it neither raises nor
\* returns a normal result.
C3_MissingColumnErrorResult ==
    (/\ Executed
     /\ Bound
     /\ \A p \in PrimaryParams : LoadsAt(p)
     /\ \E p \in PrimaryParams : ~HasAny(p, Mandatory(p)))
        => /\ Analyzer.kind = "return"
           /\ "error" \in DOMAIN Analyzer.value
           /\ Reply = Analyzer.value

\* C4: an analyzer run on a table that has its identifying column and
\* lacks some of the optional columns does not raise.
C4_OptionalColumnNoCrash ==
    (/\ Executed
     /\ Bound
     /\ \A p \in PrimaryParams : LoadsAt(p) /\ HasAny(p, Mandatory(p)))
        => /\ Analyzer.kind = "return"
           /\ "skipped" \notin DOMAIN Reply

----------------------------------------------------------------------------
(* Properties of the keyword analyzer *)

\* the keywords table the call read
KeywordTable == load_csv(file_at(files, call.data_path)).value

\* the column the analyzer reads the quality score from
QsColumn == find_col(KeywordTable, <<<<"Q","u","a","l","i","t","y"," ","S","c","o","r","e">>, <<"Q","u","a","l","."," ","s","c","o","r","e">>>>)

\* df.drop(columns=[col])
drop_column(df, col) ==
    LET others == SelectSeq(Tuple([j \in 1..Len(df.columns) |-> j],
                                  Len(df.columns)),
                            LAMBDA j : j # column_at(df, col))
    IN  [columns |-> Tuple([i \in 1..Len(others) |-> df.columns[others[i]]],
                           Len(others)),
         rows    |-> Tuple([k \in 1..Len(df.rows) |->
                             Tuple([i \in 1..Len(others) |->
                                       df.rows[k][others[i]]], Len(others))],
                           Len(df.rows))]

\* the analyzer run on the same table without its Quality Score column
WithoutQs ==
    keyword_analysis_analyze(
        [data_path |-> Return(drop_column(KeywordTable, QsColumn))])

\* a keywords table with a keyword column and a Quality Score column was
\* analyzed
AnalyzedWithQs ==
    /\ call.fn = "analyze_keywords"
    /\ outcome.kind = "return"
    /\ "findings" \in DOMAIN outcome.value
    /\ has(QsColumn)

\* C5: on a keywords table with the Quality Score column removed the
\* analyzer does not raise, reports no Quality Score finding and no
\* quality score breakdown, and its findings are exactly the findings of
\* the run with the column, in the same order, less the Quality Score ones.
C5_QualityScoreRemoved ==
    AnalyzedWithQs =>
        /\ WithoutQs.kind = "return"
        /\ "findings" \in DOMAIN WithoutQs.value
        /\ WithoutQs.value.quality_score_breakdown = None
        /\ \A i \in 1..Len(WithoutQs.value.findings) :
              WithoutQs.value.findings[i].area # "Quality Score"
        /\ WithoutQs.value.findings =
              SelectSeq(outcome.value.findings,
                        LAMBDA f : f.area # "Quality Score")

\* a report with Quality Score, ad relevance, wasted spend, duplicate and
\* bid gap findings at once
C5_Witness ==
    /\ AnalyzedWithQs
    /\ \A area \in {"Quality Score", "Ad Relevance", "Landing Page Experience",
                    "Match Type Balance", "Wasted Spend", "Duplicate Keywords",
                    "Bid Gap"} :
          \E i \in 1..Len(outcome.value.findings) :
              outcome.value.findings[i].area = area
    /\ Len(WithoutQs.value.findings) < Len(outcome.value.findings)

----------------------------------------------------------------------------
(* Properties of the loader *)

\* the lines of the file the loader was called on
LoadedLines == file_at(files, call.path).lines

\* a data line: not blank, no longer than the header, some field present,
\* and a first field that does not begin with "total"
IsDataLine(line, header) ==
    /\ ~is_blank_line(line)
    /\ Len(line) <= Len(header)
    /\ \E j \in 1..Len(line) : line[j] \notin na_values
    /\ ~startswith(lower(line[1]), <<"t","o","t","a","l">>)

\* the file is 2 title lines, a header of 3 or more columns, data lines,
\* a Total row and a blank line
IsBannerExport(f) ==
    /\ f.status = "ok"
    /\ Len(f.lines) >= 6
    /\ \A i \in 1..2 : ~is_blank_line(f.lines[i]) /\ Len(f.lines[i]) < 3
    /\ Len(f.lines[3]) >= 3
    /\ \A i \in 4..(Len(f.lines) - 2) : IsDataLine(f.lines[i], f.lines[3])
    /\ startswith(f.lines[Len(f.lines) - 1][1], <<"T","o","t","a","l">>)
    /\ f.lines[Len(f.lines)] = <<>>

\* the cell holds what the field spells
CellSpells(cell, field) ==
    IF field \in na_values THEN cell = NaN ELSE str_of(cell) = field

\* C11: a file of 2 banner lines, a header, data rows (5 among them), a
\* trailing Total row and a final blank line loads as a table with the
\* header's column names and exactly the data rows, none of them a Total row.
C11_BannerExportLoads ==
    (call.fn = "load_csv" /\ IsBannerExport(file_at(files, call.path))) =>
        /\ outcome.kind = "return"
        /\ Len(outcome.value.columns) = Len(LoadedLines[3])
        /\ \A j \in 1..Len(LoadedLines[3]) :
              outcome.value.columns[j] = strip(LoadedLines[3][j])
        /\ Len(outcome.value.rows) = Len(LoadedLines) - 5
        /\ \A k \in 1..Len(outcome.value.rows) :
              /\ \A j \in 1..Len(LoadedLines[3]) :
                    CellSpells(outcome.value.rows[k][j],
                               field_at(LoadedLines[3 + k], j))
              /\ ~startswith(str_of(outcome.value.rows[k][1]), <<"T","o","t","a","l">>)

\* the export with 5 data rows was loaded
C11_Witness ==
    /\ call.fn = "load_csv"
    /\ IsBannerExport(file_at(files, call.path))
    /\ Len(LoadedLines) = 10
    /\ outcome.kind = "return"
    /\ Len(outcome.value.rows) = 5

\* C12: a table load_csv returns has no row that is entirely empty, no row
\* whose first cell starts, case-insensitively, with "total", and no column
\* name with leading or trailing whitespace.
C12_LoadedTableIsClean ==
    (call.fn = "load_csv" /\ outcome.kind = "return") =>
        /\ \A k \in 1..Len(outcome.value.rows) :
              /\ \E j \in 1..Len(outcome.value.rows[k]) :
                    outcome.value.rows[k][j] # NaN
              /\ ~startswith(lower(str_of(outcome.value.rows[k][1])), <<"t","o","t","a","l">>)
        /\ \A j \in 1..Len(outcome.value.columns) :
              /\ outcome.value.columns[j] # <<>>
                    => /\ ~is_space(outcome.value.columns[j][1])
                       /\ ~is_space(outcome.value.columns[j]
                                        [Len(outcome.value.columns[j])])

\* an export with an empty row, a summary row and padded names was loaded
\* and a row survived
C12_Witness ==
    /\ call.fn = "load_csv"
    /\ outcome.kind = "return"
    /\ Len(outcome.value.rows) > 0
    /\ \E i \in 1..Len(LoadedLines) : LoadedLines[i] = <<<<>>, <<>>, <<>>>>
    /\ \E i \in 1..Len(LoadedLines) : LoadedLines[i] = <<<<"T","O","T","A","L">>, <<"1">>>>
    /\ \E i \in 1..Len(LoadedLines) : LoadedLines[i][1] = <<" ","K","e","y","w","o","r","d"," ">>

----------------------------------------------------------------------------
(* Properties of the cleaners *)

\* a cleaner was called
Cleaned == call.fn \in {"clean_percentage", "clean_currency", "clean_number"}

\* the characters a cleaner removes from a text
Stripped(fn) ==
    CASE fn = "clean_percentage" -> {"%", "<", ">"}
      [] fn = "clean_currency"   -> {"$", ","}
      [] fn = "clean_number"     -> {","}

\* a text holds something other than a sign, digits, a point, blanks, the
\* placeholder dash and the characters the cleaner removes
HasResidue(fn, s) ==
    \E i \in 1..Len(s) :
        /\ ~is_digit(s[i])
        /\ s[i] \notin {".", "-", "+", " "} \cup Stripped(fn)

C14_NumericPercentage ==
    (call.fn = "clean_percentage" /\ call.val.t \in {"num", "float"}) =>
        LET v == IF call.val.t = "num" THEN call.val.n * SCALE ELSE call.val.u
        IN  /\ v > SCALE  => outcome = Some(v \div 100)
            /\ v <= SCALE => outcome = Some(v)
            /\ call.val = Num(50) => outcome = Some(SCALE \div 2)
            /\ call.val = Float(SCALE \div 2) => outcome = Some(SCALE \div 2)
            /\ call.val = Num(1) => outcome = Some(SCALE)

\* exactly 1 came back as 1
C14_Witness ==
    /\ call.fn = "clean_percentage"
    /\ call.val = Num(1)
    /\ outcome = Some(SCALE)

\* the same text with the other comparison marker
OtherMarker(s) == <<IF s[1] = "<" THEN ">" ELSE "<">> \o Tail(s)

\* C15: clean_percentage on a text removes '%', a leading '<' or '>' with
\* or without a blank after it, and placeholder dashes, and divides the
\* number left by 100: "23.4%" gives 0.234, "< 10%" gives 0.10, and a text
\* gives the same with '<' as with '>'.
C15_TextPercentage ==
    (call.fn = "clean_percentage" /\ call.val.t = "text") =>
        /\ call.val.s = <<"2","3",".","4","%">> => outcome = Some((234 * SCALE) \div 1000)
        /\ call.val.s = <<"<"," ","1","0","%">> => outcome = Some(SCALE \div 10)
        /\ call.val.s[1] \in {"<", ">"} =>
              outcome = clean_percentage(Text(OtherMarker(call.val.s)))

----------------------------------------------------------------------------
(* Properties of the wasted-spend check *)

\* the keywords analyzer ran its checks on a table
KeywordsAnalyzed ==
    /\ call.fn = "analyze_keywords"
    /\ outcome.kind = "return"
    /\ "findings" \in DOMAIN outcome.value

\* the cleaned value of row k under the column, missing without the column
CleanedAt(col, k) ==
    IF has(col)
    THEN clean_currency(KeywordTable.rows[k][column_at(KeywordTable, col)])
    ELSE None

RECURSIVE SumFrom(_, _)
\* the sum of the present values of rows k.. under the column
SumFrom(col, k) ==
    IF k > Len(KeywordTable.rows) THEN 0
    ELSE (IF CleanedAt(col, k) = None THEN 0 ELSE CleanedAt(col, k).value)
         + SumFrom(col, k + 1)

CostColumn == find_col(KeywordTable, <<<<"C","o","s","t">>, <<"S","p","e","n","d">>>>)

ConvColumn == find_col(KeywordTable, <<<<"C","o","n","v","e","r","s","i","o","n","s">>, <<"C","o","n","v",".">>>>)

\* the account average CPA: total cost over total conversions, 0 without
\* conversions
AvgCpa ==
    IF SumFrom(ConvColumn, 1) = 0 THEN 0
    ELSE (SumFrom(CostColumn, 1) * SCALE) \div SumFrom(ConvColumn, 1)

\* max(2 x average CPA, 30), and 50 when the average CPA is 0
WasteThreshold ==
    IF AvgCpa = 0 THEN 50 * SCALE
    ELSE IF 2 * AvgCpa > 30 * SCALE THEN 2 * AvgCpa ELSE 30 * SCALE

\* row k has zero or missing conversions and a cost over the threshold
Wasteful(k) ==
    /\ CleanedAt(ConvColumn, k) \in {None, Some(0)}
    /\ CleanedAt(CostColumn, k) # None
    /\ CleanedAt(CostColumn, k).value > WasteThreshold

\* the rows flagged HIGH "Wasted Spend", as (keyword, cost) in output order
Flagged ==
    LET hits == SelectSeq(outcome.value.findings,
                          LAMBDA f : f.area = "Wasted Spend")
    IN  Tuple([i \in 1..Len(hits) |->
                  <<hits[i].severity, hits[i].keyword, hits[i].detail[1]>>],
              Len(hits))

\* the wasteful rows, as (keyword, cost) in table order
WastefulRows ==
    LET ks == SelectSeq(Tuple([k \in 1..Len(KeywordTable.rows) |-> k],
                              Len(KeywordTable.rows)), Wasteful)
    IN  Tuple([i \in 1..Len(ks) |->
                  <<"HIGH",
                    KeywordTable.rows[ks[i]][column_at(KeywordTable,
                        find_col(KeywordTable, <<<<"K","e","y","w","o","r","d">>, <<"K","e","y","w","o","r","d"," ","t","e","x","t">>>>))],
                    CleanedAt(CostColumn, ks[i]).value>>],
              Len(ks))

\* with average CPA 20: cost 100 is flagged, cost 25 is not
Cpa20Examples ==
    AvgCpa = 20 * SCALE =>
        \A k \in 1..Len(KeywordTable.rows) :
            CleanedAt(ConvColumn, k) = Some(0) =>
                /\ CleanedAt(CostColumn, k) = Some(100 * SCALE)
                      => \E i \in 1..Len(Flagged) :
                            Flagged[i][3] = 100 * SCALE
                /\ CleanedAt(CostColumn, k) = Some(25 * SCALE)
                      => \A i \in 1..Len(Flagged) :
                            Flagged[i][3] # 25 * SCALE

\* C16 as stated: a keyword row is flagged HIGH "Wasted Spend" exactly when
\* its conversions are zero or missing and its cost is greater than
\* max(2 x account average CPA, 30), 50 when the average CPA is 0.
C16_WastedSpendExactly ==
    KeywordsAnalyzed => Flagged = WastefulRows /\ Cpa20Examples

\* C16: in a keywords table that has a cost and a conversions column, the
\* rows flagged HIGH "Wasted Spend" are exactly those with zero or missing
\* conversions and a cost greater than max(2 x account average CPA, 30),
\* 50 when the average CPA is 0; a table without a conversions column has no
\* row flagged.
C16_WastedSpendWithConversions ==
    KeywordsAnalyzed =>
        /\ has(ConvColumn) => Flagged = WastefulRows /\ Cpa20Examples
        /\ ~has(ConvColumn) => Flagged = <<>>

\* average CPA 20, cost 100 flagged and cost 25 not
C16_Witness ==
    /\ KeywordsAnalyzed
    /\ AvgCpa = 20 * SCALE
    /\ Flagged = <<<<"HIGH", Text(<<"s","h","o","e","s">>), 100 * SCALE>>>>
    /\ \E k \in 1..Len(KeywordTable.rows) :
          CleanedAt(CostColumn, k) = Some(25 * SCALE)

----------------------------------------------------------------------------
(* Claim C17: delivery findings *)

\* the campaigns report on disk: header and rows as the loader keeps them
CampaignTable == load_csv(files["campaigns.csv"]).value

\* the report of the scenario: one row, cost 500, daily budget 10,
\* conversions 0, impressions 0, status Enabled
IdleBrandOnly ==
    /\ "campaigns.csv" \in DOMAIN files
    /\ load_csv(files["campaigns.csv"]).kind = "return"
    /\ CampaignTable.columns = SubSeq(CampaignColumns, 1, 6)
    /\ Len(CampaignTable.rows) = 1
    /\ CampaignTable.rows[1] = <<Text(<<"B","r","a","n","d">>), Text(<<"E","n","a","b","l","e","d">>), Num(500),
                                 Num(10), Num(0), Num(0)>>

CampaignsAnalyzed == call.fn = "analyze_campaign_performance"

BiddingAnalyzed == call.fn = "analyze_bidding_strategies"

FindingsOf(severity, area) ==
    {i \in 1..Len(outcome.value.findings) :
        /\ outcome.value.findings[i].severity = severity
        /\ outcome.value.findings[i].area = area}

\* C17 as stated: the one-row report (cost 500, daily budget 10, conversions
\* 0, impressions 0, status Enabled) yields at least one finding with
\* severity HIGH and area Delivery
C17_HighDelivery ==
    (IdleBrandOnly /\ (CampaignsAnalyzed \/ BiddingAnalyzed))
        => FindingsOf("HIGH", "Delivery") # {}

\* C17 amended: on that report the campaign performance analyzer yields
\* exactly one Delivery finding, of severity MEDIUM, for the campaign; the
\* bidding analyzer yields no Delivery finding because the campaign has
\* spent; neither yields a HIGH Delivery finding
C17_MediumDelivery ==
    IdleBrandOnly =>
        /\ CampaignsAnalyzed =>
              /\ Cardinality(FindingsOf("MEDIUM", "Delivery")) = 1
              /\ \A i \in FindingsOf("MEDIUM", "Delivery") :
                    outcome.value.findings[i].campaign = Text(<<"B","r","a","n","d">>)
              /\ FindingsOf("HIGH", "Delivery") = {}
              /\ outcome.value.metrics.account_avg_cpa = 0
        /\ BiddingAnalyzed =>
              /\ FindingsOf("MEDIUM", "Delivery") = {}
              /\ FindingsOf("HIGH", "Delivery") = {}

C17_Witness ==
    /\ IdleBrandOnly
    /\ CampaignsAnalyzed
    /\ FindingsOf("MEDIUM", "Delivery") = {1}

----------------------------------------------------------------------------
(* Claim C18: repeated calls *)

\* the earlier calls of the analyzer now called, on the same file
SameCallBefore ==
    {i \in 1..Len(call.earlier) :
        /\ call.earlier[i].fn = call.fn
        /\ call.earlier[i].data_path = call.data_path}

C18_FilesUnchanged == [][files' = files]_vars

----------------------------------------------------------------------------
(* Claims C19 and C20: recommended bid adjustments *)

\* the percentage an adjustment text such as "+200%" or "-90%" names
percent_of(adjustment) ==
    LET digits == SubSeq(adjustment.s, 2, Len(adjustment.s) - 1)
    IN  IF adjustment.s[1] = "-" THEN 0 - int_of(digits) ELSE int_of(digits)

Range(seq) == {seq[i] : i \in 1..Len(seq)}

BidsAnalyzed ==
    /\ call.fn \in {"analyze_devices", "analyze_geographic_performance",
                    "analyze_time_performance"}
    /\ outcome.kind = "return"
    /\ "findings" \in DOMAIN outcome.value

\* the adjustments the findings' recommendations name
FindingAdjustments ==
    UNION {Range(f.adjustments) : f \in Range(outcome.value.findings)}

\* the adjustments the result tables recommend
TableAdjustments ==
    CASE call.fn = "analyze_devices" ->
            {l.recommended_bid_adj :
                l \in Range(outcome.value.device_performance_table)}
            \cup {outcome.value.bid_adjustment_recommendations[d].recommended_adjustment :
                     d \in DOMAIN outcome.value.bid_adjustment_recommendations}
      [] call.fn = "analyze_geographic_performance" ->
            {c.recommended_adj : c \in Range(outcome.value.bid_up_candidates)}
      [] call.fn = "analyze_time_performance" ->
            UNION {IF "table" \in DOMAIN half
                   THEN {l.recommended_adj : l \in Range(half.table)} ELSE {} :
                      half \in {outcome.value.hour_of_day, outcome.value.day_of_week}}

WithinLimits(adjustment) ==
    0 - 90 <= percent_of(adjustment) /\ percent_of(adjustment) <= 900

\* C19: every bid adjustment that the device, hour-of-day, day-of-week and
\* location analyzers recommend, in their result tables and in the
\* recommendations of their findings, lies within [-90%, +900%]
C19_AdjustmentsWithinLimits ==
    BidsAnalyzed =>
        \A adjustment \in FindingAdjustments \cup TableAdjustments :
            WithinLimits(adjustment)

\* the part of C19 that holds: the adjustments in the tables of the device
\* and time analyzers are within the limits
C19_ClampedTables ==
    (BidsAnalyzed /\ call.fn # "analyze_geographic_performance") =>
        \A adjustment \in TableAdjustments : WithinLimits(adjustment)

\* a location is recommended an adjustment above +900%
C19_LocationAboveLimit ==
    /\ BidsAnalyzed
    /\ call.fn = "analyze_geographic_performance"
    /\ \E adjustment \in FindingAdjustments \cap TableAdjustments :
          percent_of(adjustment) > 900

\* an hour is recommended an adjustment below -90%
C19_HourBelowLimit ==
    /\ BidsAnalyzed
    /\ call.fn = "analyze_time_performance"
    /\ \E adjustment \in FindingAdjustments : percent_of(adjustment) < 0 - 90

\* the line of the device table for a device
DeviceLine(device) ==
    CHOOSE l \in Range(outcome.value.device_performance_table) : l.device = device

\* the device's CPA is above 1.5 x the account average, its cost above 50
\* and its current adjustment not negative
CostlyDevice(device) ==
    /\ 2 * DeviceLine(device).cpa > 3 * outcome.value.metrics.account_avg_cpa
    /\ DeviceLine(device).cost > 50 * SCALE
    /\ outcome.value.bid_adjustment_recommendations[device.s].current_adjustment
           # Text(<<"+","n","a","n","%">>)
    /\ percent_of(outcome.value.bid_adjustment_recommendations[device.s]
                      .current_adjustment) >= 0

DeviceBidFindings ==
    {f \in Range(outcome.value.findings) :
        f.severity = "HIGH" /\ f.area = "Device Bid" /\ CostlyDevice(f.device)}

\* C20: the HIGH Device Bid finding for a device whose CPA exceeds 1.5 x the
\* account average CPA, with cost above 50 and a current adjustment that is
\* not negative, recommends a negative bid adjustment
C20_CostlyDeviceBidDown ==
    (BidsAnalyzed /\ call.fn = "analyze_devices") =>
        \A f \in DeviceBidFindings : percent_of(f.adjustments[1]) < 0

\* a costly device is recommended a higher bid
C20_CostlyDeviceBidUp ==
    /\ BidsAnalyzed
    /\ call.fn = "analyze_devices"
    /\ \E f \in DeviceBidFindings : percent_of(f.adjustments[1]) > 0

\* a costly device is recommended a lower bid
C20_CostlyDeviceBidDownSeen ==
    /\ BidsAnalyzed
    /\ call.fn = "analyze_devices"
    /\ \E f \in DeviceBidFindings : percent_of(f.adjustments[1]) < 0

----------------------------------------------------------------------------
(* The search term analyzer called on a search terms report *)

\* the columns of a search terms report
TermColumns == <<<<"S","e","a","r","c","h"," ","t","e","r","m">>, <<"A","d","d","e","d"," ","/"," ","E","x","c","l","u","d","e","d">>, <<"C","o","s","t">>,
                 <<"C","o","n","v","e","r","s","i","o","n","s">>, <<"C","l","i","c","k","s">>, <<"C","o","n","v","."," ","r","a","t","e">>>>

\* search terms: one converting well, one converting well and excluded, one
\* converting and added, one converting below the others, one only spending
TermRows == {
    <<<<"r","e","d"," ","s","h","o","e","s">>, <<"N","o","n","e">>, <<"2","0">>, <<"3">>, <<"3","0">>, <<"1","0","%">>>>,
    <<<<"b","l","u","e"," ","s","h","o","e","s">>, <<"E","x","c","l","u","d","e","d">>, <<"1","0">>, <<"4">>, <<"4","0">>, <<"1","0","%">>>>,
    <<<<"s","h","o","e","s">>, <<"A","d","d","e","d">>, <<"5">>, <<"5">>, <<"5","0">>, <<"1","0","%">>>>,
    <<<<"c","h","e","a","p"," ","s","h","o","e","s">>, <<"N","o","n","e">>, <<"4","0">>, <<"2">>, <<"1","0","0">>, <<"2","%">>>>,
    <<<<"f","r","e","e"," ","s","h","o","e","s">>, <<"N","o","n","e">>, <<"6","0">>, <<"0">>, <<"1","0">>, <<"0","%">>>> }

\* the full report, one without conversion rates, one without the marks
TermLayouts == {<<1, 2, 3, 4, 5, 6>>, <<1, 2, 3, 4, 5>>, <<1, 3, 4, 5, 6>>}

\* keywords reports: one holding a search term of the report, one not
TermKeywordFiles ==
    {Export(FALSE, <<<<"K","e","y","w","o","r","d">>, <<"C","o","s","t">>>>,
            <<<<keyword, <<"1">>>>, TotalLine, TotalLine>>, TRUE) :
        keyword \in {<<" ","R","e","d"," ","S","h","o","e","s">>, <<"b","o","o","t","s">>}}

TermPaths == {"search_terms.csv", "missing.csv"}

InitTerms ==
    /\ files \in {[path \in {"search_terms.csv", "keywords.csv"} |->
                      IF path = "keywords.csv" THEN keywords ELSE terms] :
                    terms \in Reports(TermColumns, TermLayouts, TermRows),
                    keywords \in TermKeywordFiles}
    /\ call = NoCall
    /\ outcome = None

\* search_term_analysis.analyze(data_path, keywords_path)
AnalyzeTerms(data_path, keywords_path) ==
    /\ call = NoCall
    /\ call' = [fn |-> "analyze_search_terms", data_path |-> data_path,
                keywords_path |-> keywords_path]
    /\ outcome' = search_term_analysis_analyze(
                      [data_path |-> load_csv(file_at(files, data_path)),
                       keywords_path |-> load_csv(file_at(files, keywords_path))])
    /\ UNCHANGED files

NextTerms ==
    \E data_path \in TermPaths, keywords_path \in {"keywords.csv", "missing.csv"} :
        AnalyzeTerms(data_path, keywords_path)

SpecTerms == InitTerms /\ [][NextTerms]_vars

----------------------------------------------------------------------------
(* The ad group analyzer called on an ad groups report, next to the campaign *)
(* analyzer called on a campaigns report                                     *)

\* the columns of an ad groups report
GroupColumns == <<<<"A","d"," ","g","r","o","u","p">>, <<"C","a","m","p","a","i","g","n">>, <<"S","t","a","t","u","s">>, <<"C","o","s","t">>,
                  <<"C","o","n","v","e","r","s","i","o","n","s">>, <<"I","m","p","r","e","s","s","i","o","n","s">>, <<"C","T","R">>, <<"M","a","x"," ","C","P","C">>>>

\* ad groups: one shown and never clicked, one rarely clicked, one paused
GroupRows == {
    <<<<"B","o","o","t","s">>, <<"B","r","a","n","d">>, <<"E","n","a","b","l","e","d">>, <<"1","0","0">>, <<"0">>, <<"2","0","0","0">>, <<"0","%">>, <<"0">>>>,
    <<<<"S","h","o","e","s">>, <<"B","r","a","n","d">>, <<"E","n","a","b","l","e","d">>, <<"6","0">>, <<"3">>, <<"5","0","0","0">>, <<"0",".","4","%">>, <<"2">>>>,
    <<<<"H","a","t","s">>, <<"G","e","n","e","r","i","c">>, <<"P","a","u","s","e","d">>, <<"1","0">>, <<"1">>, <<"5","0","0">>, <<"2","%">>, <<"-","-">>>> }

\* the full report, one without rates and bids, one without campaigns, one
\* without ad groups
GroupLayouts == {<<1, 2, 3, 4, 5, 6, 7, 8>>, <<1, 2, 3, 4, 5, 6>>,
                 <<1, 4, 6, 7>>, <<2, 4>>}

\* keywords reports: one keyword in an ad group of the report and one
\* paused, and a report that does not name ad groups
GroupKeywordFiles == {
    Export(FALSE, <<<<"K","e","y","w","o","r","d">>, <<"C","a","m","p","a","i","g","n">>, <<"A","d"," ","g","r","o","u","p">>, <<"S","t","a","t","u","s">>>>,
           <<<<<<"b","o","o","t","s">>, <<"B","r","a","n","d">>, <<"B","o","o","t","s">>, <<"E","n","a","b","l","e","d">>>>,
             <<<<"h","a","t","s">>, <<"G","e","n","e","r","i","c">>, <<"H","a","t","s">>, <<"P","a","u","s","e","d">>>>,
             TotalLine, TotalLine>>, TRUE),
    Export(FALSE, <<<<"K","e","y","w","o","r","d">>, <<"C","a","m","p","a","i","g","n">>>>,
           <<<<<<"b","o","o","t","s">>, <<"B","r","a","n","d">>>>, TotalLine, TotalLine>>, TRUE) }

\* full campaigns reports of one row
OneCampaignFiles ==
    {Export(FALSE, CampaignColumns, <<row, TotalLine, TotalLine>>, TRUE) :
        row \in CampaignRows}

InitGroups ==
    /\ files \in {[path \in {"ad_groups.csv", "keywords.csv", "campaigns.csv"} |->
                      CASE path = "ad_groups.csv" -> groups
                        [] path = "keywords.csv" -> keywords
                        [] path = "campaigns.csv" -> campaigns] :
                    groups \in Reports(GroupColumns, GroupLayouts, GroupRows),
                    keywords \in GroupKeywordFiles,
                    campaigns \in OneCampaignFiles}
    /\ call = NoCall
    /\ outcome = None

\* ad_group_structure.analyze(data_path, keywords_path)
AnalyzeGroups(data_path, keywords_path) ==
    /\ call = NoCall
    /\ call' = [fn |-> "analyze_ad_group_structure", data_path |-> data_path,
                keywords_path |-> keywords_path]
    /\ outcome' = ad_group_structure_analyze(
                      [data_path |-> load_csv(file_at(files, data_path)),
                       keywords_path |-> load_csv(file_at(files, keywords_path))])
    /\ UNCHANGED files

NextGroups ==
    \/ \E keywords_path \in {"keywords.csv", "missing.csv"} :
          AnalyzeGroups("ad_groups.csv", keywords_path)
    \/ AnalyzeCampaigns("campaigns.csv")

SpecGroups == InitGroups /\ [][NextGroups]_vars

----------------------------------------------------------------------------
(* Claim C21: harvest findings of the search term analyzer *)

\* the search terms report the call read
TermTable == load_csv(file_at(files, call.data_path)).value

TermsAnalyzed ==
    /\ call.fn = "analyze_search_terms"
    /\ outcome.kind = "return"
    /\ "findings" \in DOMAIN outcome.value

\* the cell of row k under the column of that name, missing without it
TermField(name, k) ==
    LET at == {j \in 1..Len(TermTable.columns) : TermTable.columns[j] = name}
    IN  IF at = {} THEN NaN ELSE TermTable.rows[k][CHOOSE j \in at : TRUE]

\* the conversion rates the report gives
TermRates ==
    {k \in 1..Len(TermTable.rows) :
        clean_percentage(TermField(<<"C","o","n","v","."," ","r","a","t","e">>, k)) # None}

RECURSIVE RateSum(_)
RateSum(ks) ==
    IF ks = {} THEN 0
    ELSE LET k == CHOOSE r \in ks : TRUE
         IN  clean_percentage(TermField(<<"C","o","n","v","."," ","r","a","t","e">>, k)).value
             + RateSum(ks \ {k})

\* row k has a conversion rate above the account's average rate
AboveBenchmark(k) ==
    /\ k \in TermRates
    /\ clean_percentage(TermField(<<"C","o","n","v","."," ","r","a","t","e">>, k)).value * Cardinality(TermRates)
          > RateSum(TermRates)

\* the term of row k as the comparisons spell it
TermOf(k) == strip(lower(str_of(TermField(<<"S","e","a","r","c","h"," ","t","e","r","m">>, k))))

\* row k is marked with the word in the Added / Excluded column
Marked(k, word) ==
    contains(lower(str_of(TermField(<<"A","d","d","e","d"," ","/"," ","E","x","c","l","u","d","e","d">>, k))), word)

\* the keywords of the keywords file the call read
KeywordsOnFile ==
    LET kloaded == load_csv(file_at(files, call.keywords_path))
    IN  IF kloaded.kind = "raise" THEN {}
        ELSE {strip(lower(str_of(kloaded.value.rows[k][1]))) :
                 k \in 1..Len(kloaded.value.rows)}

\* the rows with a HIGH Keyword Opportunity finding
Harvested ==
    {outcome.value.findings[i].row : i \in FindingsOf("HIGH", "Keyword Opportunity")}

\* C21: a term gets a HIGH Keyword Opportunity finding only if it has at
\* least 2 conversions, a conversion rate above the account benchmark, is
\* not an added keyword (marked added, or in the keywords table) and is not
\* a negative (marked excluded)
C21_HarvestOnlyDeserving ==
    TermsAnalyzed =>
        \A k \in Harvested :
            /\ clean_number(TermField(<<"C","o","n","v","e","r","s","i","o","n","s">>, k)) # None
            /\ clean_number(TermField(<<"C","o","n","v","e","r","s","i","o","n","s">>, k)).value >= 2 * SCALE
            /\ AboveBenchmark(k)
            /\ \A r \in 1..Len(TermTable.rows) :
                  TermOf(r) = TermOf(k) => ~Marked(r, <<"a","d","d","e","d">>)
            /\ TermOf(k) \notin KeywordsOnFile
            /\ ~Marked(k, <<"e","x","c","l","u","d","e","d">>)

\* the part of C21 the code keeps: conversions, added marks and keywords
C21_HarvestNeedsConversions ==
    TermsAnalyzed =>
        \A k \in Harvested :
            /\ clean_number(TermField(<<"C","o","n","v","e","r","s","i","o","n","s">>, k)) # None
            /\ clean_number(TermField(<<"C","o","n","v","e","r","s","i","o","n","s">>, k)).value >= 2 * SCALE
            /\ \A r \in 1..Len(TermTable.rows) :
                  TermOf(r) = TermOf(k) => ~Marked(r, <<"a","d","d","e","d">>)
            /\ TermOf(k) \notin KeywordsOnFile

\* a term marked excluded is harvested
C21_ExcludedHarvested ==
    /\ TermsAnalyzed
    /\ \E k \in Harvested : Marked(k, <<"e","x","c","l","u","d","e","d">>) /\ AboveBenchmark(k)

\* a term is harvested although its rate is not above the benchmark
C21_BelowBenchmarkHarvested ==
    /\ TermsAnalyzed
    /\ \E k \in Harvested : ~AboveBenchmark(k) /\ ~Marked(k, <<"e","x","c","l","u","d","e","d">>)

----------------------------------------------------------------------------
(* Claims C22 and C23: ROAS and CTR findings of the campaign analyzer *)

CampaignFindings ==
    /\ CampaignsAnalyzed
    /\ outcome.kind = "return"
    /\ "findings" \in DOMAIN outcome.value

\* the cell of row k of the campaigns report under the column of that
\* name, missing without it
CampaignField(name, k) ==
    LET at == {j \in 1..Len(CampaignTable.columns) : CampaignTable.columns[j] = name}
    IN  IF at = {} THEN NaN ELSE CampaignTable.rows[k][CHOOSE j \in at : TRUE]

\* the amount in a cell, 0 for a cell without one
AmountIn(cell) ==
    IF clean_currency(cell) = None THEN 0 ELSE clean_currency(cell).value

\* row k spent more than 100 and returned less than it spent
LowRoas(k) ==
    /\ AmountIn(CampaignField(<<"C","o","s","t">>, k)) > 100 * SCALE
    /\ AmountIn(CampaignField(<<"C","o","n","v","."," ","v","a","l","u","e">>, k))
          < AmountIn(CampaignField(<<"C","o","s","t">>, k))

\* the campaign of row k has a finding of that severity and area
CampaignFlagged(k, severity, area) ==
    \E i \in FindingsOf(severity, area) :
        outcome.value.findings[i].campaign = CampaignField(<<"C","a","m","p","a","i","g","n">>, k)

\* C22: every campaign row with a return on ad spend below 1.0 and a cost
\* above 100 gets a HIGH ROAS finding, a campaign without conversions and
\* without conversion value included
C22_LowRoasFlagged ==
    CampaignFindings =>
        \A k \in 1..Len(CampaignTable.rows) :
            LowRoas(k) => CampaignFlagged(k, "HIGH", "ROAS")

\* the part of C22 the code keeps: the rows that have conversions, in a
\* report that has a conversion value column
C22_ConvertingLowRoasFlagged ==
    CampaignFindings =>
        \A k \in 1..Len(CampaignTable.rows) :
            (/\ LowRoas(k)
             /\ AmountIn(CampaignField(<<"C","o","n","v","e","r","s","i","o","n","s">>, k)) > 0
             /\ find_col(CampaignTable, <<<<"C","o","n","v","."," ","v","a","l","u","e">>>>) # None)
                => CampaignFlagged(k, "HIGH", "ROAS")

\* a campaign that spent more than 100 without a conversion is not flagged
C22_UnconvertedUnflagged ==
    /\ CampaignFindings
    /\ find_col(CampaignTable, <<<<"C","o","n","v","."," ","v","a","l","u","e">>>>) # None
    /\ \E k \in 1..Len(CampaignTable.rows) :
          /\ LowRoas(k)
          /\ CampaignField(<<"C","o","n","v","e","r","s","i","o","n","s">>, k) = Num(0)
          /\ CampaignField(<<"C","o","n","v","."," ","v","a","l","u","e">>, k) = Num(0)
          /\ ~CampaignFlagged(k, "HIGH", "ROAS")

\* a campaign with conversions and a low return is flagged
C22_ConvertingFlagged ==
    /\ CampaignFindings
    /\ \E k \in 1..Len(CampaignTable.rows) :
          LowRoas(k) /\ CampaignFlagged(k, "HIGH", "ROAS")

\* row k of the campaigns report has a click-through rate below 0.5% and
\* more than 1,000 impressions
LowCtr(k) ==
    /\ clean_percentage(CampaignField(<<"C","T","R">>, k)) # None
    /\ clean_percentage(CampaignField(<<"C","T","R">>, k)).value < SCALE \div 200
    /\ clean_number(CampaignField(<<"I","m","p","r","e","s","s","i","o","n","s">>, k)) # None
    /\ clean_number(CampaignField(<<"I","m","p","r","e","s","s","i","o","n","s">>, k)).value > 1000 * SCALE

\* a campaign shown more than 1,000 times with a click-through rate of
\* exactly 0 has no CTR finding
C23_UnclickedCampaignUnflagged ==
    /\ CampaignFindings
    /\ \E k \in 1..Len(CampaignTable.rows) :
          /\ LowCtr(k)
          /\ clean_percentage(CampaignField(<<"C","T","R">>, k)) = Some(0)
          /\ ~CampaignFlagged(k, "MEDIUM", "CTR")

\* a campaign with a low click-through rate above 0 has a CTR finding
C23_LowCtrCampaignFlagged ==
    /\ CampaignFindings
    /\ \E k \in 1..Len(CampaignTable.rows) :
          LowCtr(k) /\ CampaignFlagged(k, "MEDIUM", "CTR")

\* the ad groups report on disk
GroupTable == load_csv(files["ad_groups.csv"]).value

GroupFindings ==
    /\ call.fn = "analyze_ad_group_structure"
    /\ outcome.kind = "return"
    /\ "findings" \in DOMAIN outcome.value

\* the cell of row k of the ad groups report under the column of that name,
\* missing without it
GroupField(name, k) ==
    LET at == {j \in 1..Len(GroupTable.columns) : GroupTable.columns[j] = name}
    IN  IF at = {} THEN NaN ELSE GroupTable.rows[k][CHOOSE j \in at : TRUE]

\* row k of the ad groups report has a click-through rate below 0.5% and
\* more than 1,000 impressions
LowGroupCtr(k) ==
    /\ clean_percentage(GroupField(<<"C","T","R">>, k)) # None
    /\ clean_percentage(GroupField(<<"C","T","R">>, k)).value < SCALE \div 200
    /\ clean_number(GroupField(<<"I","m","p","r","e","s","s","i","o","n","s">>, k)) # None
    /\ clean_number(GroupField(<<"I","m","p","r","e","s","s","i","o","n","s">>, k)).value > 1000 * SCALE

\* the ad group of row k has a MEDIUM CTR finding
GroupFlagged(k) ==
    \E i \in FindingsOf("MEDIUM", "CTR") :
        outcome.value.findings[i].ad_group = GroupField(<<"A","d"," ","g","r","o","u","p">>, k)

\* C23: every campaign row and every ad group row with a click-through rate
\* below 0.5% and more than 1,000 impressions gets a MEDIUM CTR finding, a
\* row with a click-through rate of exactly 0 included
C23_LowCtrFlagged ==
    /\ CampaignFindings =>
          \A k \in 1..Len(CampaignTable.rows) :
              LowCtr(k) => CampaignFlagged(k, "MEDIUM", "CTR")
    /\ GroupFindings =>
          \A k \in 1..Len(GroupTable.rows) : LowGroupCtr(k) => GroupFlagged(k)

\* the part of C23 the code keeps: the rows with a click-through rate
\* above 0
C23_ClickedLowCtrFlagged ==
    /\ CampaignFindings =>
          \A k \in 1..Len(CampaignTable.rows) :
              (LowCtr(k) /\ clean_percentage(CampaignField(<<"C","T","R">>, k)) # Some(0))
                  => CampaignFlagged(k, "MEDIUM", "CTR")
    /\ GroupFindings =>
          \A k \in 1..Len(GroupTable.rows) :
              (LowGroupCtr(k) /\ clean_percentage(GroupField(<<"C","T","R">>, k)) # Some(0))
                  => GroupFlagged(k)

\* an ad group shown more than 1,000 times with a click-through rate of
\* exactly 0 has no CTR finding
C23_UnclickedGroupUnflagged ==
    /\ GroupFindings
    /\ \E k \in 1..Len(GroupTable.rows) :
          /\ LowGroupCtr(k)
          /\ clean_percentage(GroupField(<<"C","T","R">>, k)) = Some(0)
          /\ ~GroupFlagged(k)

\* an ad group with a low click-through rate above 0 has a CTR finding
C23_LowCtrGroupFlagged ==
    /\ GroupFindings
    /\ \E k \in 1..Len(GroupTable.rows) : LowGroupCtr(k) /\ GroupFlagged(k)

----------------------------------------------------------------------------
(* The budget pacing analyzer called on a campaigns report *)

\* the columns of a campaigns report with budgets
PacingColumns == <<<<"C","a","m","p","a","i","g","n">>, <<"C","a","m","p","a","i","g","n"," ","s","t","a","t","u","s">>, <<"C","o","s","t">>, <<"B","u","d","g","e","t">>,
                   <<"S","e","a","r","c","h"," ","l","o","s","t"," ","I","S"," ","(","b","u","d","g","e","t",")">>, <<"B","u","d","g","e","t"," ","t","y","p","e">>>>

\* campaign rows: a campaign spending its whole budget and losing
\* impressions to it, a campaign spending its whole shared budget, a paused
\* campaign without spend, a campaign spending little of its budget
PacingRows == {
    <<<<"B","r","a","n","d">>, <<"E","n","a","b","l","e","d">>, <<"3","0","0">>, <<"1","0">>, <<"2","0","%">>, <<"S","t","a","n","d","a","r","d">>>>,
    <<<<"S","e","a","r","c","h">>, <<"E","n","a","b","l","e","d">>, <<"3","0","0">>, <<"1","0">>, <<"5","%">>, <<"S","h","a","r","e","d">>>>,
    <<<<"D","i","s","p","l","a","y">>, <<"P","a","u","s","e","d">>, <<"0">>, <<"2","0">>, <<"-","-">>, <<"S","t","a","n","d","a","r","d">>>>,
    <<<<"S","h","o","p","p","i","n","g">>, <<"E","n","a","b","l","e","d">>, <<"6","0">>, <<"5","0">>, <<"0","%">>, <<"S","t","a","n","d","a","r","d">>>> }

\* the full report; reports lacking the lost impression share, the budget
\* or the campaign
PacingLayouts == {
    <<1, 2, 3, 4, 5, 6>>,
    <<1, 2, 3, 4, 6>>,
    <<1, 2, 3, 5>>,
    <<2, 3, 4, 5>> }

\* the lengths of the reporting period a caller passes
ReportDays == {30, 1, 0}

InitPacing ==
    /\ files \in [{"campaigns.csv"} -> Reports(PacingColumns, PacingLayouts, PacingRows)]
    /\ call = NoCall
    /\ outcome = None

\* budget_pacing.analyze(data_path, report_days)
AnalyzePacing(data_path, report_days) ==
    /\ call = NoCall
    /\ call' = [fn |-> "analyze_budget_pacing", data_path |-> data_path,
                report_days |-> report_days]
    /\ outcome' = budget_pacing_analyze(
                      [data_path |-> load_csv(file_at(files, data_path)),
                       report_days |-> report_days])
    /\ UNCHANGED files

NextPacing ==
    \E data_path \in {"campaigns.csv", "missing.csv"}, report_days \in ReportDays :
        AnalyzePacing(data_path, report_days)

SpecPacing == InitPacing /\ [][NextPacing]_vars

----------------------------------------------------------------------------
(* Claim C24: utilization findings of the budget pacing analyzer *)

\* the campaigns report the call read
PacingTable == load_csv(file_at(files, call.data_path)).value

PacingFindings ==
    /\ call.fn = "analyze_budget_pacing"
    /\ outcome.kind = "return"
    /\ "findings" \in DOMAIN outcome.value

\* the cell of row k of the report under the column of that name, missing
\* without it
PacingField(name, k) ==
    LET at == {j \in 1..Len(PacingTable.columns) : PacingTable.columns[j] = name}
    IN  IF at = {} THEN NaN ELSE PacingTable.rows[k][CHOOSE j \in at : TRUE]

\* row k is not skipped: it spent, or its campaign is enabled
PacingKept(k) ==
    \/ AmountIn(PacingField(<<"C","o","s","t">>, k)) # 0
    \/ status_of(PacingField(<<"C","a","m","p","a","i","g","n"," ","s","t","a","t","u","s">>, k)) = <<"e","n","a","b","l","e","d">>

\* cost / report_days of row k, times 100, against the budget times pct
SpendsOver(k, pct) ==
    /\ call.report_days > 0
    /\ AmountIn(PacingField(<<"B","u","d","g","e","t">>, k)) > 0
    /\ 100 * AmountIn(PacingField(<<"C","o","s","t">>, k))
          > pct * AmountIn(PacingField(<<"B","u","d","g","e","t">>, k)) * call.report_days

SpendsUnder(k, pct) ==
    /\ call.report_days > 0
    /\ AmountIn(PacingField(<<"B","u","d","g","e","t">>, k)) > 0
    /\ 100 * AmountIn(PacingField(<<"C","o","s","t">>, k))
          < pct * AmountIn(PacingField(<<"B","u","d","g","e","t">>, k)) * call.report_days

\* the campaign of row k has a finding of that severity and area
PacingFlagged(k, severity, area) ==
    \E i \in FindingsOf(severity, area) :
        outcome.value.findings[i].campaign = PacingField(<<"C","a","m","p","a","i","g","n">>, k)

\* the lost impression share (budget) of row k is above 15%
LosesToBudget(k) ==
    /\ clean_percentage(PacingField(<<"S","e","a","r","c","h"," ","l","o","s","t"," ","I","S"," ","(","b","u","d","g","e","t",")">>, k)) # None
    /\ clean_percentage(PacingField(<<"S","e","a","r","c","h"," ","l","o","s","t"," ","I","S"," ","(","b","u","d","g","e","t",")">>, k)).value
          > (15 * SCALE) \div 100

\* C24: every row that is not skipped and spends more than 95% of its
\* positive daily budget per day gets a MEDIUM Budget Utilization finding,
\* whatever other rule fires for it; a row spending less than 20% of its
\* budget with a cost above 10 gets a LOW finding
C24_UtilizationFlagged ==
    PacingFindings =>
        \A k \in 1..Len(PacingTable.rows) :
            /\ (PacingKept(k) /\ SpendsOver(k, 95))
                  => PacingFlagged(k, "MEDIUM", "Budget Utilization")
            /\ (PacingKept(k) /\ SpendsUnder(k, 20)
                  /\ AmountIn(PacingField(<<"C","o","s","t">>, k)) > 10 * SCALE)
                  => PacingFlagged(k, "LOW", "Budget Pacing")

\* the part of C24 the code keeps: the rows that do not lose more than 15%
\* of their impressions to the budget
C24_UncappedUtilizationFlagged ==
    PacingFindings =>
        \A k \in 1..Len(PacingTable.rows) :
            /\ (PacingKept(k) /\ SpendsOver(k, 95) /\ ~LosesToBudget(k))
                  => PacingFlagged(k, "MEDIUM", "Budget Utilization")
            /\ (PacingKept(k) /\ SpendsUnder(k, 20)
                  /\ AmountIn(PacingField(<<"C","o","s","t">>, k)) > 10 * SCALE)
                  => PacingFlagged(k, "LOW", "Budget Pacing")

\* a campaign spending more than 95% of its budget has the Budget Cap
\* finding and no Budget Utilization finding
C24_CappedRowUnflagged ==
    /\ PacingFindings
    /\ \E k \in 1..Len(PacingTable.rows) :
          /\ PacingKept(k) /\ SpendsOver(k, 95) /\ LosesToBudget(k)
          /\ PacingFlagged(k, "HIGH", "Budget Cap")
          /\ ~PacingFlagged(k, "MEDIUM", "Budget Utilization")

\* a campaign spending more than 95% of its budget has the Budget
\* Utilization finding, another spending under 20% has the LOW finding
C24_UtilizationRowsFlagged ==
    /\ PacingFindings
    /\ \E k \in 1..Len(PacingTable.rows) :
          SpendsOver(k, 95) /\ PacingFlagged(k, "MEDIUM", "Budget Utilization")
    /\ \E k \in 1..Len(PacingTable.rows) :
          SpendsUnder(k, 20) /\ PacingFlagged(k, "LOW", "Budget Pacing")

----------------------------------------------------------------------------
(* Claim C25: the order of the Stage-1 pairs *)

\* first headers built on every Stage-1 fragment: the fragment, the
\* fragment and another word, the fragment run into more letters, and
\* spellings in capitals and with blanks around
Stage1Headers ==
    UNION {{ _FIRST_COL_MAP[i][1],
             _FIRST_COL_MAP[i][1] \o <<" ","n","a","m","e">>,
             _FIRST_COL_MAP[i][1] \o <<"s">> } :
           i \in 1..Len(_FIRST_COL_MAP)}
    \cup { <<"A","d"," ","G","r","o","u","p"," ","N","a","m","e">>, <<" ","A","u","d","i","e","n","c","e"," ","S","e","g","m","e","n","t"," ">>, <<"A","D">>, <<"A","d"," ","f","i","n","a","l"," ","U","R","L">> }

\* reports of two columns and three data lines under each of these headers
Stage1Files ==
    {Export(FALSE, <<first, second>>, <<DataLine, DataLine, DataLine>>, TRUE) :
        first \in Stage1Headers, second \in { <<"C","o","s","t">>, <<"C","a","m","p","a","i","g","n">> }}

InitStage1 ==
    /\ files \in [{"upload.csv"} -> Stage1Files]
    /\ call = NoCall
    /\ outcome = None

SpecStage1 == InitStage1 /\ [][NextClassify]_vars

\* the Stage-1 pair matching a first column that no other matching pair is
\* more specific than: the one with the longest fragment
MostSpecific(first) ==
    CHOOSE i \in Stage1Hits(first) :
        \A j \in Stage1Hits(first) :
            Len(_FIRST_COL_MAP[j][1]) <= Len(_FIRST_COL_MAP[i][1])

\* C25: no pair of the Stage-1 list comes ahead of a more specific
\* fragment (one that starts with its fragment and a space) of another
\* type, and every first column some pair matches is given the type of the
\* most specific fragment matching it
C25_MostSpecificWins ==
    /\ \A i, j \in 1..Len(_FIRST_COL_MAP) :
          (i < j /\ startswith(_FIRST_COL_MAP[j][1],
                               _FIRST_COL_MAP[i][1] \o <<" ">>))
              => _FIRST_COL_MAP[i][2] = _FIRST_COL_MAP[j][2]
    /\ \A path \in DOMAIN files :
          (/\ Classified(path)
           /\ Classifiable(path)
           /\ Stage1Hits(HeadersOf(path)[1]) # {})
              => outcome = Return(Some(
                     _FIRST_COL_MAP[MostSpecific(HeadersOf(path)[1])][2]))

\* a first column two pairs of different types match ("ad group name":
\* "ad group" and "ad") is given the type of the longer fragment
C25_Witness ==
    /\ Classified("upload.csv")
    /\ Classifiable("upload.csv")
    /\ \E i, j \in Stage1Hits(HeadersOf("upload.csv")[1]) :
          _FIRST_COL_MAP[i][2] # _FIRST_COL_MAP[j][2]
    /\ outcome = Return(Some("ad_groups"))

----------------------------------------------------------------------------
(* Claim C26: the loader called on an export without a footer *)

\* exports of a header and data rows only: no title, no summary row, no
\* blank line
PlainExports ==
    {Export(FALSE, header, rows, TRUE) :
        header \in LoadHeaders, rows \in {<<>>} \cup SeqsUpTo(LoadRows, MaxBody)}

InitPlain ==
    /\ files \in [{"export.csv"} -> PlainExports]
    /\ call = NoCall
    /\ outcome = None

SpecPlain == InitPlain /\ [][NextLoad]_vars

\* the number of data rows of the export
DataRows == Len(files["export.csv"].lines) - 1

\* data row k of the export, as the file spells it
DataRow(k) == files["export.csv"].lines[k + 1]

\* the export is a header followed by data rows: none is blank, made of
\* empty fields or named Total...
PlainExport ==
    /\ files["export.csv"].status = "ok"
    /\ DataRows >= 0
    /\ header_idx(files["export.csv"].lines) = 0
    /\ \A k \in 1..DataRows :
          /\ ~is_blank_line(DataRow(k))
          /\ DataRow(k)[1] \notin na_values
          /\ ~startswith(lower(DataRow(k)[1]), <<"t","o","t","a","l">>)

\* C26: loading a header followed by N data rows and nothing else gives a
\* table of max(N - 2, 0) rows, the first ones of the file in their order
C26_FooterlessExportLosesTwoRows ==
    (call.fn = "load_csv" /\ PlainExport) =>
        /\ outcome.kind = "return"
        /\ Len(outcome.value.rows) = (IF DataRows > 2 THEN DataRows - 2 ELSE 0)
        /\ \A k \in 1..Len(outcome.value.rows) :
              str_of(outcome.value.rows[k][1]) = DataRow(k)[1]

\* an export of four data rows whose last two differ from its first two
\* is loaded as its first two rows
C26_Witness ==
    /\ call.fn = "load_csv"
    /\ PlainExport
    /\ DataRows = 4
    /\ DataRow(3)[1] # DataRow(1)[1]
    /\ DataRow(4)[1] # DataRow(2)[1]
    /\ outcome.kind = "return"
    /\ Len(outcome.value.rows) = 2

----------------------------------------------------------------------------
(* Claim C27: the time analyzer called with one of its two files missing *)

TimeAnalyzed == call.fn = "analyze_time_performance"

\* no file stands behind the path
Missing(path) == file_at(files, path).status = "missing"

\* the half read from the path is analysed in full: a report with the
\* column the half looks for has its table in the result
HalfAnalysed(path, candidates, results) ==
    has(find_col(load_csv(file_at(files, path)).value, candidates))
        => "table" \in DOMAIN results

\* the half is reported as skipped for want of its file
HalfSkipped(results, k) ==
    /\ "error" \in DOMAIN results
    /\ outcome.value.summary[k] = "skipped"

\* C27: with one of the two files missing and the other present the call
\* returns: the missing half is an error entry and is marked skipped in
\* the summary, the other half is analysed and its table returned
C27_MissingHalfSkipped ==
    TimeAnalyzed =>
        /\ (Missing(call.tod_path) /\ ~Missing(call.dow_path)) =>
              /\ outcome.kind = "return"
              /\ HalfSkipped(outcome.value.hour_of_day, 2)
              /\ HalfAnalysed(call.dow_path, <<<<"D","a","y"," ","o","f"," ","w","e","e","k">>, <<"D","a","y">>>>,
                              outcome.value.day_of_week)
        /\ (~Missing(call.tod_path) /\ Missing(call.dow_path)) =>
              /\ outcome.kind = "return"
              /\ HalfSkipped(outcome.value.day_of_week, 3)
              /\ HalfAnalysed(call.tod_path, <<<<"H","o","u","r"," ","o","f"," ","d","a","y">>, <<"H","o","u","r">>>>,
                              outcome.value.hour_of_day)

\* what the code does instead: a call with a missing file raises the
\* ValueError of load_csv
C27_MissingFileRaises ==
    (TimeAnalyzed /\ (Missing(call.tod_path) \/ Missing(call.dow_path)))
        => outcome = Raise("ValueError")

\* the hours report is missing, the days report is there, and the call
\* raises
C27_MissingHoursRaise ==
    /\ TimeAnalyzed
    /\ Missing(call.tod_path)
    /\ ~Missing(call.dow_path)
    /\ has(find_col(load_csv(file_at(files, call.dow_path)).value,
                    <<<<"D","a","y"," ","o","f"," ","w","e","e","k">>, <<"D","a","y">>>>))
    /\ outcome = Raise("ValueError")

\* both reports are there and both halves are complete
C27_BothHalvesComplete ==
    /\ TimeAnalyzed
    /\ outcome.kind = "return"
    /\ outcome.value.summary[2] = "complete"
    /\ outcome.value.summary[3] = "complete"
    /\ "table" \in DOMAIN outcome.value.day_of_week

----------------------------------------------------------------------------
(* Claim C28: the better-than-average finding of the device analyzer *)

\* the HIGH Device Bid findings saying the device's CPA is significantly
\* better than the account average
BetterCpaFindings ==
    {f \in Range(outcome.value.findings) :
        f.severity = "HIGH" /\ f.area = "Device Bid" /\ f.detail[1] = "below"}

\* C28: the finding that a device's CPA is significantly better than the
\* account average is only given for devices with at least one conversion
C28_BetterCpaNeedsConversions ==
    (BidsAnalyzed /\ call.fn = "analyze_devices") =>
        \A f \in BetterCpaFindings : DeviceLine(f.device).conversions > 0

\* the part of C28 the code keeps: the finding is only given for devices
\* costing more than 50 whose CPA figure, 0 for a device without
\* conversions, is below 0.7 x the account average
C28_BetterCpaFigure ==
    (BidsAnalyzed /\ call.fn = "analyze_devices") =>
        \A f \in BetterCpaFindings :
            /\ DeviceLine(f.device).cost > 50 * SCALE
            /\ 10 * DeviceLine(f.device).cpa
                  < 7 * outcome.value.metrics.account_avg_cpa

\* a device that spent and never converted is reported as having a CPA
\* better than the account average
C28_UnconvertedDeviceBetter ==
    /\ BidsAnalyzed
    /\ call.fn = "analyze_devices"
    /\ \E f \in BetterCpaFindings :
          /\ DeviceLine(f.device).conversions = 0
          /\ DeviceLine(f.device).cpa = 0

\* a device with conversions is reported as having a better CPA
C28_ConvertingDeviceBetter ==
    /\ BidsAnalyzed
    /\ call.fn = "analyze_devices"
    /\ \E f \in BetterCpaFindings : DeviceLine(f.device).conversions > 0

----------------------------------------------------------------------------
(* app.py: uploads are classified and saved under the name the analyzers *)
(* read                                                                   *)

\* runner.EXPECTED_FILES
EXPECTED_FILES == {
    "campaigns.csv", "ad_groups.csv", "keywords.csv", "search_terms.csv",
    "ads.csv", "extensions.csv", "audiences.csv", "devices.csv",
    "time_of_day.csv", "day_of_week.csv", "geographic.csv" }

\* utils.TYPE_TO_FILENAME
TYPE_TO_FILENAME == [
    campaigns    |-> "campaigns.csv",
    keywords     |-> "keywords.csv",
    search_terms |-> "search_terms.csv",
    ads          |-> "ads.csv",
    ad_groups    |-> "ad_groups.csv",
    devices      |-> "devices.csv",
    audiences    |-> "audiences.csv",
    extensions   |-> "extensions.csv",
    geographic   |-> "geographic.csv",
    time_of_day  |-> "time_of_day.csv",
    day_of_week  |-> "day_of_week.csv"]

\* DATA_DIR / canonical, as the analyzers' defaults spell it
data_dir(canonical) ==
    CASE canonical = "campaigns.csv"    -> "data/campaigns.csv"
      [] canonical = "keywords.csv"     -> "data/keywords.csv"
      [] canonical = "search_terms.csv" -> "data/search_terms.csv"
      [] canonical = "ads.csv"          -> "data/ads.csv"
      [] canonical = "ad_groups.csv"    -> "data/ad_groups.csv"
      [] canonical = "devices.csv"      -> "data/devices.csv"
      [] canonical = "audiences.csv"    -> "data/audiences.csv"
      [] canonical = "extensions.csv"   -> "data/extensions.csv"
      [] canonical = "geographic.csv"   -> "data/geographic.csv"
      [] canonical = "time_of_day.csv"  -> "data/time_of_day.csv"
      [] canonical = "day_of_week.csv"  -> "data/day_of_week.csv"

\* classify_uploaded_file(uf): a canonical file name is trusted, any other
\* upload is classified by its content; an exception gives None
classify_uploaded_file(name, f) ==
    IF name \in EXPECTED_FILES
    THEN Some(CHOOSE k \in DOMAIN TYPE_TO_FILENAME : TYPE_TO_FILENAME[k] = name)
    ELSE classify_csv(f).value

\* the files after save_uploaded_files([uf]) for an upload of that type
saved_files(fs, f, file_type) ==
    IF file_type = None THEN fs
    ELSE (data_dir(TYPE_TO_FILENAME[file_type.value]) :> f) @@ fs

\* the list save_uploaded_files returns
saved_list(file_type) ==
    IF file_type = None THEN <<>> ELSE <<TYPE_TO_FILENAME[file_type.value]>>

----------------------------------------------------------------------------
(* An upload saved and then analysed with the analyzers' default paths *)

\* the names uploads come under: any name, and a canonical one
UploadNames == {"export.csv", "devices.csv"}

InitUpload ==
    /\ files \in UNION {[{name} -> Stage1Files] : name \in UploadNames}
    /\ call = NoCall
    /\ outcome = None

\* save_uploaded_files([uf])
SaveUpload(name) ==
    /\ call = NoCall
    /\ call' = [fn |-> "save_uploaded_files", name |-> name]
    /\ files' = saved_files(files, files[name], classify_uploaded_file(name, files[name]))
    /\ outcome' = Return(saved_list(classify_uploaded_file(name, files[name])))

\* an analyzer called without arguments once the upload is saved
AnalyzeSaved(tool_name) ==
    /\ call.fn = "save_uploaded_files"
    /\ call' = [fn |-> tool_name, name |-> call.name]
    /\ outcome' = invoke(tool_name, files, <<>>)
    /\ UNCHANGED files

NextUpload ==
    \/ \E name \in DOMAIN files : SaveUpload(name)
    \/ \E tool_name \in TOOL_MAP : AnalyzeSaved(tool_name)

SpecUpload == InitUpload /\ [][NextUpload]_vars

----------------------------------------------------------------------------
(* Claim C29: the classifier and the analyzers on the primary dimension *)

\* the upload, its first header and the type Stage 1 gives it
Upload == files[call.name]

UploadHeader == strip(lower(load_csv(Upload).value.columns[1]))

\* the upload was classified by its first column: its name is not a
\* canonical one and a Stage-1 pair matches its first header
ClassifiedByFirstColumn ==
    /\ call.fn \in TOOL_MAP
    /\ call.name \notin EXPECTED_FILES
    /\ load_csv(Upload).kind = "return"
    /\ Stage1Hits(UploadHeader) # {}

\* the type of the upload and the file it was saved as
UploadType == first_col_match(UploadHeader, 1).value

\* the analyzer called reads the file the upload was saved as
ConsumesUpload ==
    signature(call.fn).data_path = data_dir(TYPE_TO_FILENAME[UploadType])

\* the analyzer's answer that its identifying column is not there
ColumnNotFound == outcome.kind = "return" /\ "error" \in DOMAIN outcome.value

\* C29: an analyzer reading the file an upload was saved as because of its
\* first column finds its identifying column in it
C29_AnalyzerFindsPrimaryColumn ==
    (ClassifiedByFirstColumn /\ "data_path" \in DOMAIN signature(call.fn)
        /\ ConsumesUpload) => ~ColumnNotFound

\* the part of C29 the code keeps: the fragments the analyzers look up
\* under the same name
C29_SharedNamesFound ==
    (/\ ClassifiedByFirstColumn
     /\ "data_path" \in DOMAIN signature(call.fn)
     /\ ConsumesUpload
     /\ UploadHeader \in { <<"s","e","a","r","c","h"," ","t","e","r","m">>, <<"a","u","d","i","e","n","c","e"," ","s","e","g","m","e","n","t">>, <<"a","u","d","i","e","n","c","e">>,
                           <<"d","e","v","i","c","e">>, <<"a","d"," ","g","r","o","u","p">>, <<"k","e","y","w","o","r","d">>, <<"c","a","m","p","a","i","g","n">>,
                           <<"c","i","t","y">>, <<"r","e","g","i","o","n">>, <<"c","o","u","n","t","r","y","/","t","e","r","r","i","t","o","r","y">>,
                           <<"c","a","m","p","a","i","g","n"," ","n","a","m","e">>, <<"a","u","d","i","e","n","c","e"," ","n","a","m","e">> })
        => ~ColumnNotFound

\* an upload whose first column is "asset type" is saved as the extensions
\* report and the extension analyzer does not find its column
C29_AssetTypeNotFound ==
    /\ ClassifiedByFirstColumn
    /\ UploadHeader = <<"a","s","s","e","t"," ","t","y","p","e">>
    /\ call.fn = "analyze_extensions"
    /\ ConsumesUpload
    /\ ColumnNotFound

\* an upload whose first column is "location" is saved as the geographic
\* report and the location analyzer does not find its column
C29_LocationNotFound ==
    /\ ClassifiedByFirstColumn
    /\ UploadHeader = <<"l","o","c","a","t","i","o","n">>
    /\ call.fn = "analyze_geographic_performance"
    /\ ConsumesUpload
    /\ ColumnNotFound

\* an upload whose first column is "device" is analysed
C29_DeviceFound ==
    /\ ClassifiedByFirstColumn
    /\ UploadHeader = <<"d","e","v","i","c","e">>
    /\ call.fn = "analyze_devices"
    /\ ConsumesUpload
    /\ outcome.kind = "return"
    /\ ~ColumnNotFound

----------------------------------------------------------------------------
(* agent/runner.py: run_analysis, a generator.  call holds its frame (the  *)
(* place it is suspended at and its locals), outcome the events it has     *)
(* yielded.  The API's answers and the success of save_report are the      *)
(* environment's choice.                                                   *)

Event(type, data) == [type |-> type, data |-> data]

Yielded(events) == [kind |-> "yield", events |-> events]

\* the frame of run_analysis suspended at pc
Frame(pc, messages, blocks, results, rounds) ==
    [fn |-> "run_analysis", pc |-> pc, messages |-> messages,
     tool_use_blocks |-> blocks, tool_results |-> results, rounds |-> rounds]

\* [b for b in response.content if b.type == "tool_use"]
tool_use_blocks_of(content) == SelectSeq(content, LAMBDA b : b.type = "tool_use")

\* next((block.text for block in response.content if hasattr(block, "text")), None)
final_text_of(content) ==
    LET texts == SelectSeq(content, LAMBDA b : "text" \in DOMAIN b)
    IN  IF texts = <<>> THEN None ELSE Some(texts[1].text)

\* the end of a turn gone wrong: a report that cannot be saved ends the run
end_turn_events_unsaved(final_text, saved) ==
    IF final_text = None \/ final_text = Some("")
    THEN <<Event("error", "No final report was generated by the model.")>>
    ELSE IF saved THEN <<Event("complete", final_text.value)>> ELSE <<>>

\* what the end_turn branch yields: save_report sits in try/except Exception
end_turn_events(final_text, saved) ==
    IF final_text = None \/ final_text = Some("")
    THEN <<Event("error", "No final report was generated by the model.")>>
    ELSE <<Event("complete", final_text.value)>>

\* the files after the end_turn branch: the report, when it could be saved
end_turn_files(fs, final_text, saved) ==
    IF final_text = None \/ final_text = Some("") \/ ~saved THEN fs
    ELSE ("output/report.md" :>
            [status |-> "ok", utf8 |-> TRUE, lines |-> <<<<final_text.value>>>>])
         @@ fs

\* the entry of tool_results for a block
tool_result_of(block, result) ==
    [type |-> "tool_result", tool_use_id |-> block.id, content |-> result]

\* the error event of an exception of client.messages.create
api_error_event(exc) ==
    CASE exc = "AuthenticationError" ->
            Event("error", "Invalid API key. Please check your Anthropic API key and try again.")
      [] exc = "RateLimitError" ->
            Event("error", "Rate limit reached. Please wait a moment and try again.")
      [] OTHER -> Event("error", "API call failed")

----------------------------------------------------------------------------
(* A run of the agent loop *)

\* the largest number of answers asking for tools in a run
MaxRounds == 2

\* the largest number of tool calls asked for in a run
MaxTools == 3

\* the data files of a run: a devices report, nothing else
RunFiles ==
    {[path \in {"data/devices.csv"} |->
         Export(FALSE, DeviceColumns,
                <<<<<<"D","e","s","k","t","o","p">>, <<"1","0","0">>, <<"1","7">>, <<"2","0","0","0">>, <<"1","9","0">>, <<"1","0","%">>>>,
                  TotalLine, TotalLine>>, TRUE)]}

\* the tool calls an answer asks for: a tool whose file is there, a tool
\* whose file is missing, a tool that does not exist
ToolCalls == {
    [name |-> "analyze_devices", input |-> <<>>],
    [name |-> "analyze_keywords", input |-> <<>>],
    [name |-> "analyze_everything", input |-> <<>>] }

\* the content of an answer asking for these tools, with ids in the order
\* of the request, after a block of text or not
tool_use_content(calls, round, spoken) ==
    (IF spoken THEN <<[type |-> "text", text |-> "Calling tools"]>> ELSE <<>>)
    \o Tuple([i \in 1..Len(calls) |->
                 [type |-> "tool_use", id |-> <<round, i>>,
                  name |-> calls[i].name, input |-> calls[i].input]], Len(calls))

\* the contents of an answer that ends the turn: a report, an empty text,
\* no text
FinalContents == {
    <<[type |-> "text", text |-> "# Report"]>>,
    <<[type |-> "text", text |-> ""]>>,
    <<>> }

\* the tool calls the run has asked for so far
Requested(messages) ==
    LET RECURSIVE count(_)
        count(j) ==
            IF j = 0 THEN 0
            ELSE (IF messages[j].role = "assistant"
                  THEN Len(tool_use_blocks_of(messages[j].content)) ELSE 0)
                 + count(j - 1)
    IN  count(Len(messages))

InitRun ==
    /\ files \in RunFiles
    /\ call = NoCall
    /\ outcome = None

\* run_analysis up to its first yield
RunStart ==
    /\ call = NoCall
    /\ call' = Frame("initializing", <<>>, <<>>, <<>>, 0)
    /\ outcome' = Yielded(<<Event("status", "Initializing...")>>)
    /\ UNCHANGED files

\* the client is created, or not
CreateClient(created) ==
    /\ call.fn = "run_analysis" /\ call.pc = "initializing"
    /\ IF created
       THEN /\ call' = Frame("sending",
                             <<[role |-> "user", content |-> "initial_message"]>>,
                             <<>>, <<>>, 0)
            /\ outcome' = Yielded(outcome.events
                                  \o <<Event("status", "Sending data files")>>)
       ELSE /\ call' = [call EXCEPT !.pc = "returning"]
            /\ outcome' = Yielded(outcome.events
                                  \o <<Event("error", "Failed to create Anthropic client")>>)
    /\ UNCHANGED files

\* the top of the loop, reached from the status message
Think ==
    /\ call.fn = "run_analysis" /\ call.pc = "sending"
    /\ call' = [call EXCEPT !.pc = "thinking"]
    /\ outcome' = Yielded(outcome.events \o <<Event("thinking", None)>>)
    /\ UNCHANGED files

\* client.messages.create raises
ApiFails(exc) ==
    /\ call.fn = "run_analysis" /\ call.pc = "thinking"
    /\ call' = [call EXCEPT !.pc = "returning"]
    /\ outcome' = Yielded(outcome.events \o <<api_error_event(exc)>>)
    /\ UNCHANGED files

\* the answer asks for tools: up to the first tool_start, or, without a
\* tool_use block, round the loop to the next thinking
ToolUse(calls, spoken) ==
    /\ call.fn = "run_analysis" /\ call.pc = "thinking"
    /\ call.rounds < MaxRounds
    /\ Requested(call.messages) + Len(calls) <= MaxTools
    /\ LET content == tool_use_content(calls, call.rounds + 1, spoken)
           blocks  == tool_use_blocks_of(content)
           asked   == Append(call.messages,
                             [role |-> "assistant", content |-> content])
       IN  IF blocks = <<>>
           THEN /\ call' = Frame("thinking",
                                 Append(asked, [role |-> "user", content |-> <<>>]),
                                 blocks, <<>>, call.rounds + 1)
                /\ outcome' = Yielded(outcome.events \o <<Event("thinking", None)>>)
           ELSE /\ call' = Frame("tool_started", asked, blocks, <<>>,
                                 call.rounds + 1)
                /\ outcome' = Yielded(outcome.events
                                      \o <<Event("tool_start", blocks[1].name)>>)
    /\ UNCHANGED files

\* from tool_start to tool_done: execute(block.name, block.input)
RunTool ==
    /\ call.fn = "run_analysis" /\ call.pc = "tool_started"
    /\ LET block == call.tool_use_blocks[Len(call.tool_results) + 1]
       IN  /\ call' = [call EXCEPT
                          !.pc = "tool_done",
                          !.tool_results =
                              Append(@, tool_result_of(block,
                                  execute(block.name, files, block.input).value))]
           /\ outcome' = Yielded(outcome.events \o <<Event("tool_done", block.name)>>)
    /\ UNCHANGED files

\* after tool_done: the next block's tool_start, or the results go to the
\* model and the loop starts again
AfterTool ==
    /\ call.fn = "run_analysis" /\ call.pc = "tool_done"
    /\ IF Len(call.tool_results) < Len(call.tool_use_blocks)
       THEN /\ call' = [call EXCEPT !.pc = "tool_started"]
            /\ outcome' = Yielded(outcome.events \o
                  <<Event("tool_start",
                          call.tool_use_blocks[Len(call.tool_results) + 1].name)>>)
       ELSE /\ call' = [call EXCEPT
                           !.pc = "thinking",
                           !.messages = Append(@, [role |-> "user",
                                                   content |-> call.tool_results])]
            /\ outcome' = Yielded(outcome.events \o <<Event("thinking", None)>>)
    /\ UNCHANGED files

\* the answer ends the turn: the report is saved, or cannot be
EndTurn(content, saved) ==
    /\ call.fn = "run_analysis" /\ call.pc = "thinking"
    /\ call' = [call EXCEPT !.pc = "returning"]
    /\ outcome' = Yielded(outcome.events
                          \o end_turn_events(final_text_of(content), saved))
    /\ files' = end_turn_files(files, final_text_of(content), saved)

\* any other stop reason
OtherStop ==
    /\ call.fn = "run_analysis" /\ call.pc = "thinking"
    /\ call' = [call EXCEPT !.pc = "returning"]
    /\ outcome' = Yielded(outcome.events
                          \o <<Event("error", "Unexpected stop reason from API")>>)
    /\ UNCHANGED files

\* the return after the last yield
RunReturn ==
    /\ call.fn = "run_analysis" /\ call.pc = "returning"
    /\ call' = [call EXCEPT !.pc = "done"]
    /\ UNCHANGED <<files, outcome>>

NextRun ==
    \/ RunStart
    \/ \E created \in BOOLEAN : CreateClient(created)
    \/ Think
    \/ \E exc \in {"AuthenticationError", "RateLimitError", "APIError"} : ApiFails(exc)
    \/ \E calls \in {<<>>} \cup SeqsUpTo(ToolCalls, MaxTools), spoken \in BOOLEAN :
          ToolUse(calls, spoken)
    \/ RunTool
    \/ AfterTool
    \/ \E content \in FinalContents, saved \in BOOLEAN : EndTurn(content, saved)
    \/ OtherStop
    \/ RunReturn

SpecRun == InitRun /\ [][NextRun]_vars

----------------------------------------------------------------------------
(* Claim C30: the events of a run and the tool results given to the model *)

RunEnded == call.fn = "run_analysis" /\ call.pc = "done"

Events == outcome.events

Terminal(event) == event.type \in {"complete", "error"}

\* every tool_start but one the run is suspended at is followed at once by
\* the tool_done of the same tool
ToolEventsPaired ==
    \A i \in 1..Len(Events) :
        Events[i].type = "tool_start" =>
            \/ i = Len(Events) /\ call.pc = "tool_started"
            \/ /\ i < Len(Events)
               /\ Events[i + 1] = Event("tool_done", Events[i].data)

\* the message after each answer asking for tools holds one result per
\* tool_use block of the answer, in the order of the blocks
ResultsAnswerRequests ==
    \A j \in 1..Len(call.messages) :
        (call.messages[j].role = "assistant" /\ j < Len(call.messages)) =>
            LET asked == tool_use_blocks_of(call.messages[j].content)
                given == call.messages[j + 1].content
            IN  /\ call.messages[j + 1].role = "user"
                /\ Len(given) = Len(asked)
                /\ \A k \in 1..Len(asked) :
                      /\ given[k].type = "tool_result"
                      /\ given[k].tool_use_id = asked[k].id

\* C30: a run that has ended yielded exactly one terminal event, complete
\* or error, as its last event; every tool_start is followed at once by
\* the tool_done of the same tool; every answer asking for tools was given
\* one result per tool call, in the order of the request
C30_RunEvents ==
    (call.fn = "run_analysis") =>
        /\ ToolEventsPaired
        /\ ResultsAnswerRequests
        /\ RunEnded =>
              /\ Terminal(Events[Len(Events)])
              /\ \A i \in 1..(Len(Events) - 1) : ~Terminal(Events[i])
              /\ \A i \in 1..Len(Events) : Events[i].type # "tool_start"
                                              \/ i < Len(Events)
              /\ \A j \in 1..Len(call.messages) :
                    call.messages[j].role = "assistant" => j < Len(call.messages)

\* a run ended with the report although it could not be saved, after two
\* tools asked for in one answer, the second of which failed
C30_Witness ==
    /\ RunEnded
    /\ Events[Len(Events)].type = "complete"
    /\ "output/report.md" \notin DOMAIN files
    /\ \E j \in 1..Len(call.messages) :
          /\ call.messages[j].role = "user"
          /\ j > 1
          /\ Len(call.messages[j].content) = 2
          /\ "error" \notin DOMAIN call.messages[j].content[1].content.json
          /\ "error" \in DOMAIN call.messages[j].content[2].content.json

====
